---- MODULE Spec2Model ----
(***************************************************************************)
(* tailwind-lint: the file-fix convergence loop (src/code-actions.ts) and  *)
(* the batch runner (src/linter.ts) that drives it.                        *)
(*                                                                         *)
(* Text is a sequence of one-character strings.  The language service is   *)
(* an oracle: validate(document) and codeActions(document, diagnostics)    *)
(* are functions of the document text, chosen by the engine record.        *)
(***************************************************************************)
EXTENDS Integers, Sequences, FiniteSets, TLC

VARIABLES
    engine,      \* the language-service State: how validate and codeActions answer
    call,        \* direct calls of applyCodeActions: the arguments of the current call
    history,     \* direct calls of applyCodeActions: the calls that have returned
    loop,        \* per file index: the locals and position of applyCodeActions
    fix,         \* LintOptions.fix
    files,       \* the discovered file list (paths)
    disk,        \* path -> whether the file exists, and its content
    disk0,       \* the disk when lint was called
    batchStart,  \* processFiles: the for loop's i, the start of the current batch
    next,        \* processFiles: how many list entries batch.map has dispatched
    task,        \* per file index: the locals and position of processFile
    results,     \* processFiles: the results array
    progress,    \* the onProgress invocations, in order
    lintPc,      \* lint: "off" | "start" | "dispatch" | "awaitAll" | "done"
    lintResult,  \* what lint returned
    edIn,        \* applyFirstQuickfix alone: the action, document and content given
    edOut,       \* applyFirstQuickfix alone: the value returned
    edPc,        \* applyFirstQuickfix alone: "call" | "done"
    serIn,       \* serializeDiagnostics alone: the diagnostics given
    serOut,      \* serializeDiagnostics alone: the value returned
    serPc,       \* serializeDiagnostics alone: "off" | "call" | "done"
    outIn,       \* createJsonOutput alone: the argument given
    outOut,      \* createJsonOutput alone: the value returned
    outPc        \* createJsonOutput alone: "off" | "call" | "done"

editVars == <<edIn, edOut, edPc>>
pureVars == <<serIn, serOut, serPc, outIn, outOut, outPc>>
loopVars == <<engine, call, history, loop>>
lintVars == <<fix, files, disk, disk0, batchStart, next, task, results, progress, lintPc, lintResult>>
vars == <<engine, call, history, loop, fix, files, disk, disk0, batchStart, next, task, results,
          progress, lintPc, lintResult, edIn, edOut, edPc,
          serIn, serOut, serPc, outIn, outOut, outPc>>

----------------------------------------------------------------------------
(* Bounds of the model *)

MaxEditLen == 3      \* longest document given to applyFirstQuickfix alone
MaxEdits == 2        \* longest edit list given to applyFirstQuickfix alone
MaxLen == 2          \* longest content given to a direct call of applyCodeActions
MaxCalls == 2        \* direct calls of applyCodeActions in a row
MaxLintFiles == 2    \* most files linted together, with files of every kind
MaxLintLen == 2      \* longest short content of a file linted alone
MaxFiles == 25       \* most files linted together, with files of a few kinds
MaxDiagnostics == 2  \* longest list given to serializeDiagnostics alone
MaxOutFiles == 2     \* longest list of file results given to createJsonOutput alone

----------------------------------------------------------------------------
(* Program constants, src/constants.ts *)

MAX_FIX_ITERATIONS == 100
CONCURRENT_FILES == 10
QUICKFIX_ACTION_KIND == "quickfix"

----------------------------------------------------------------------------
(* Values *)

NL == "\n"

\* A QuickfixAction: hasChanges is whether action.edit?.changes?.[uri] is defined
\* (an empty array is defined), edits is that array.
QuickfixAction(kind, hasChanges, edits) ==
    [kind |-> kind, hasChanges |-> hasChanges, edits |-> edits]

\* The value applyFirstQuickfix returns: null, or { content }.
NullFix == [isNull |-> TRUE, content |-> <<>>]
FixOf(content) == [isNull |-> FALSE, content |-> content]

Min(a, b) == IF a < b THEN a ELSE b
Max(a, b) == IF a > b THEN a ELSE b

RECURSIVE SeqsUpTo(_, _)
SeqsUpTo(S, n) ==
    IF n = 0 THEN {<<>>}
    ELSE LET shorter == SeqsUpTo(S, n - 1)
         IN  shorter \cup {Append(s, c) : s \in {t \in shorter : Len(t) = n - 1}, c \in S}

----------------------------------------------------------------------------
(* TextDocument (vscode-languageserver-textdocument), as code-actions.ts   *)
(* uses it: create, version, lineCount, offsetAt.                          *)

TextDocumentCreate(version, text) == [version |-> version, text |-> text]

\* Offsets (0-based) at which a line starts: 0 and every offset after a newline.
LineOffsets(text) == {0} \cup {i \in 1..Len(text) : text[i] = NL}

lineCount(text) == Cardinality(LineOffsets(text))

\* The offset at which line number `line` (0-based) starts.
LineStart(text, line) ==
    CHOOSE o \in LineOffsets(text) :
        Cardinality({p \in LineOffsets(text) : p < o}) = line

\* document.offsetAt(position): clamps the line and the character to the text.
offsetAt(text, position) ==
    IF position.line >= lineCount(text) THEN Len(text)
    ELSE IF position.line < 0 THEN 0
    ELSE LET lineOffset == LineStart(text, position.line)
             nextLineOffset ==
                 IF position.line + 1 < lineCount(text)
                 THEN LineStart(text, position.line + 1)
                 ELSE Len(text)
         IN  IF position.character <= 0 THEN lineOffset
             ELSE Min(lineOffset + position.character, nextLineOffset)

\* document.positionAt(offset), used by the engine to report ranges.
positionAt(text, offset) ==
    LET o == Min(Max(offset, 0), Len(text))
        starts == {p \in LineOffsets(text) : p <= o}
        lineOffset == CHOOSE p \in starts : \A q \in starts : q <= p
    IN  [line |-> Cardinality(starts) - 1, character |-> o - lineOffset]

\* String.prototype.substring(from, to) with from <= to, both clamped to the length.
Substring(s, from, to) ==
    SubSeq(s, Min(Max(from, 0), Len(s)) + 1, Min(Max(to, 0), Len(s)))

\* String.prototype.substring(from).
SubstringFrom(s, from) == Substring(s, from, Len(s))

----------------------------------------------------------------------------
(* applyFirstQuickfix, code-actions.ts lines 63-102 *)

\* The comparator of sortedEdits: negative when a sorts before b.
CompareEditsDesc(a, b) ==
    LET lineDiff == b.range.start.line - a.range.start.line
    IN  IF lineDiff # 0 THEN lineDiff
        ELSE b.range.start.character - a.range.start.character

\* A comparator that sorts ascending instead (edits applied front to back).
CompareEditsAsc(a, b) ==
    LET lineDiff == a.range.start.line - b.range.start.line
    IN  IF lineDiff # 0 THEN lineDiff
        ELSE a.range.start.character - b.range.start.character

CompareEdits(a, b) == CompareEditsDesc(a, b)

\* Array.prototype.sort is stable: e goes after every element not sorting after it.
RECURSIVE InsertEdit(_, _)
InsertEdit(sorted, e) ==
    IF sorted = <<>> THEN <<e>>
    ELSE IF CompareEdits(Head(sorted), e) <= 0
         THEN <<Head(sorted)>> \o InsertEdit(Tail(sorted), e)
         ELSE <<e>> \o sorted

RECURSIVE SortEdits(_)
SortEdits(edits) ==
    IF edits = <<>> THEN <<>>
    ELSE InsertEdit(SortEdits(SubSeq(edits, 1, Len(edits) - 1)), edits[Len(edits)])

\* The for loop over sortedEdits: offsets from the snapshot, slices of newContent.
RECURSIVE ApplySortedEdits(_, _, _)
ApplySortedEdits(sortedEdits, document, newContent) ==
    IF sortedEdits = <<>> THEN newContent
    ELSE LET edit == Head(sortedEdits)
             startOffset == offsetAt(document.text, edit.range.start)
             endOffset == offsetAt(document.text, edit.range.end)
         IN  ApplySortedEdits(Tail(sortedEdits), document,
                 Substring(newContent, 0, startOffset)
                     \o edit.newText
                     \o SubstringFrom(newContent, endOffset))

applyFirstQuickfix(action, document, content) ==
    IF ~action.hasChanges THEN NullFix
    ELSE FixOf(ApplySortedEdits(SortEdits(action.edits), document, content))

----------------------------------------------------------------------------
(* applyFirstQuickfix alone, on every small document and edit list *)

EditAlphabet == {"a", "b", NL}
EditTexts == {<<>>, <<"x">>, <<"y", "z">>}

\* The positions of a document: a line of it and a character of that line.
Positions(text) == {positionAt(text, o) : o \in 0..Len(text)}

EditsOf(text) ==
    {[range |-> [start |-> s, end |-> e], newText |-> t] :
        s \in Positions(text), e \in Positions(text), t \in EditTexts}

StartOffset(text, e) == offsetAt(text, e.range.start)
EndOffset(text, e) == offsetAt(text, e.range.end)

WellFormed(text, e) == StartOffset(text, e) <= EndOffset(text, e)

\* Two edits overlap when their half-open ranges share a character.
Overlap(text, e1, e2) ==
    /\ StartOffset(text, e1) < EndOffset(text, e2)
    /\ StartOffset(text, e2) < EndOffset(text, e1)

OverlapFree(text, edits) ==
    /\ \A i \in 1..Len(edits) : WellFormed(text, edits[i])
    /\ \A i, j \in 1..Len(edits) : i # j => ~Overlap(text, edits[i], edits[j])

LintIdle ==
    /\ fix = FALSE
    /\ files = <<>>
    /\ disk = <<>>
    /\ disk0 = <<>>
    /\ batchStart = 0
    /\ next = 0
    /\ task = <<>>
    /\ results = <<>>
    /\ progress = <<>>
    /\ lintPc = "off"
    /\ lintResult = [files |-> <<>>, totalFilesProcessed |-> 0]

LoopIdle ==
    /\ engine = [diag |-> "flag", act |-> "none", fail |-> "none"]
    /\ call = [content |-> <<>>, diagnostics |-> <<>>]
    /\ history = <<>>
    /\ loop = <<>>

\* serializeDiagnostics and createJsonOutput are not called alone.
PureIdle ==
    /\ serPc = "off"
    /\ serIn = <<>>
    /\ serOut = <<>>
    /\ outPc = "off"
    /\ outIn = <<>>
    /\ outOut = <<>>

EditInit ==
    /\ LoopIdle
    /\ LintIdle
    /\ PureIdle
    /\ edPc = "call"
    /\ edOut = NullFix
    /\ \E text \in SeqsUpTo(EditAlphabet, MaxEditLen) :
         \E action \in {QuickfixAction("quickfix", FALSE, <<>>)} \cup
                 {QuickfixAction("quickfix", TRUE, es) :
                     es \in {es \in SeqsUpTo({e \in EditsOf(text) : WellFormed(text, e)},
                                               MaxEdits) : OverlapFree(text, es)}} :
            edIn = [action |-> action,
                    document |-> TextDocumentCreate(1, text),
                    content |-> text]

EditApply ==
    /\ edPc = "call"
    /\ edOut' = applyFirstQuickfix(edIn.action, edIn.document, edIn.content)
    /\ edPc' = "done"
    /\ UNCHANGED edIn
    /\ UNCHANGED <<loopVars, lintVars, pureVars>>

EditNext == EditApply

SpecEdit == EditInit /\ [][EditNext]_vars

\* Applying the edits one at a time from the end of the document backward: the
\* edit taken next is the one starting last (of two edits starting at the same
\* offset, the one ending last; of two insertions at the same offset, the later
\* one of the list, so that the inserted texts keep the list's order).
BackwardNext(text, edits) ==
    CHOOSE i \in 1..Len(edits) :
        \A j \in 1..Len(edits) :
            \/ StartOffset(text, edits[j]) < StartOffset(text, edits[i])
            \/ /\ StartOffset(text, edits[j]) = StartOffset(text, edits[i])
               /\ \/ EndOffset(text, edits[j]) < EndOffset(text, edits[i])
                  \/ /\ EndOffset(text, edits[j]) = EndOffset(text, edits[i])
                     /\ j <= i

RemoveAt(s, i) == SubSeq(s, 1, i - 1) \o SubSeq(s, i + 1, Len(s))

RECURSIVE BackwardApply(_, _, _)
BackwardApply(text, edits, content) ==
    IF edits = <<>> THEN content
    ELSE LET i == BackwardNext(text, edits)
             e == edits[i]
         IN  BackwardApply(text, RemoveAt(edits, i),
                 SubSeq(content, 1, StartOffset(text, e))
                     \o e.newText
                     \o SubSeq(content, EndOffset(text, e) + 1, Len(content)))

DistinctStarts(text, edits) ==
    \A i, j \in 1..Len(edits) :
        i # j => StartOffset(text, edits[i]) # StartOffset(text, edits[j])

IndexPermutations(n) ==
    {p \in [1..n -> 1..n] : \A i, j \in 1..n : i # j => p[i] # p[j]}

\* The results of applying the edits from the end backward, whatever the order
\* in which the list gives them (insertions at one offset may come out in either
\* order).
BackwardResults(text, edits, content) ==
    {BackwardApply(text, [i \in 1..Len(edits) |-> edits[p[i]]], content) :
        p \in IndexPermutations(Len(edits))}

\* C5: for every overlap-free edit list, in any order, applyFirstQuickfix returns
\* the content obtained by applying the edits one at a time from the end of the
\* document backward (every edit range replaced by its newText, every other
\* character kept in order).
C5_EditApplicationCorrect ==
    (edPc = "done" /\ edIn.action.hasChanges)
        => /\ ~edOut.isNull
           /\ edOut.content \in BackwardResults(edIn.document.text, edIn.action.edits,
                                                 edIn.content)

\* The same for edit lists in which no two edits start at the same offset.
EditApplicationCorrectDistinctStarts ==
    (edPc = "done" /\ edIn.action.hasChanges
        /\ DistinctStarts(edIn.document.text, edIn.action.edits))
        => edOut = FixOf(BackwardApply(edIn.document.text, edIn.action.edits,
                                       edIn.content))

----------------------------------------------------------------------------
(* The language service (external): doValidate and doCodeActions.          *)
(* engine.diag: "flag" reports every "b" of the text, in document order;   *)
(*              "always" reports one diagnostic, without a source, at the  *)
(*              start of any text.                                         *)
(* engine.act:  what doCodeActions offers for the diagnostics it is given; *)
(*              "partial" has a quickfix for a diagnostic at the start of  *)
(*              the document only.                                         *)
(* engine.fail: which call throws, and with what message, on a document    *)
(*              that holds a "t", or a "u" right after a "c" (a document   *)
(*              that only a fix produces); "none" never throws.            *)

DiagModes == {"flag", "always"}
ActModes ==
    {"canon", "same", "none", "refactor", "mixed", "noChanges", "emptyEdits", "partial"}
FailModes == {"crashValidate", "throwValidate", "crashActions", "throwActions"}

\* Engines that never throw, and engines that throw.
Engines == [diag : DiagModes, act : ActModes, fail : {"none"}]
FailingEngines == [diag : {"flag"}, act : {"canon"}, fail : FailModes]

\* The document makes a failing engine throw.
Trips(document) ==
    \E m \in 1..Len(document.text) :
        \/ document.text[m] = "t"
        \/ m > 1 /\ document.text[m] = "u" /\ document.text[m - 1] = "c"

\* Whether doValidate throws on the document: "none", or the kind of message of
\* the error, "crash" (it contains "Cannot read" or "undefined") or "other".
doValidateThrows(state, document) ==
    IF ~Trips(document) THEN "none"
    ELSE CASE state.fail = "crashValidate" -> "crash"
           [] state.fail = "throwValidate" -> "other"
           [] OTHER -> "none"

\* Whether doCodeActions throws on the document.
doCodeActionsThrows(state, document) ==
    IF ~Trips(document) THEN "none"
    ELSE CASE state.fail = "crashActions" -> "crash"
           [] state.fail = "throwActions" -> "other"
           [] OTHER -> "none"

\* An error: the kind of its message, and the file path the message names (0: none).
Error(kind, path) == [kind |-> kind, path |-> path]
NoError == Error("none", 0)

CanonText == <<"c", "c">>     \* the canonical form a flagged "b" is rewritten to

RangeOf(text, from, to) ==
    [start |-> positionAt(text, from), end |-> positionAt(text, to)]

Diagnostic(range) ==
    [range |-> range, severity |-> 2, code |-> "suggestCanonicalClasses",
     source |-> "tailwindcss"]

\* The offsets (1-based) of the flagged characters from lo to hi, ascending.
RECURSIVE FlaggedIn(_, _, _)
FlaggedIn(text, lo, hi) ==
    IF lo > hi THEN <<>>
    ELSE IF lo = hi THEN (IF text[lo] = "b" THEN <<lo>> ELSE <<>>)
    ELSE LET mid == (lo + hi) \div 2
         IN  FlaggedIn(text, lo, mid) \o FlaggedIn(text, mid + 1, hi)

doValidate(state, document) ==
    LET text == document.text
    IN  IF state.diag = "always"
        THEN <<[Diagnostic(RangeOf(text, 0, 0)) EXCEPT !.source = ""]>>
        ELSE LET at == FlaggedIn(text, 1, Len(text))
             IN  [k \in 1..Len(at) |-> Diagnostic(RangeOf(text, at[k] - 1, at[k]))]

TextEdit(range, newText) == [range |-> range, newText |-> newText]

\* The text of the document inside a range.
TextIn(text, range) ==
    SubSeq(text, offsetAt(text, range.start) + 1, offsetAt(text, range.end))

\* An action kind is a string, held as its pieces: <<"quickfix", ".", "rewrite">>
\* is "quickfix.rewrite", <<>> is an undefined kind.
doCodeActions(state, params, document) ==
    LET text == document.text
        diags == params.context.diagnostics
        canon(k) == <<TextEdit(diags[k].range, CanonText)>>
    IN  CASE state.act = "canon" ->
                 [k \in 1..Len(diags) |->
                     QuickfixAction(<<QUICKFIX_ACTION_KIND>>, TRUE, canon(k))]
          [] state.act = "same" ->
                 [k \in 1..Len(diags) |->
                     QuickfixAction(<<QUICKFIX_ACTION_KIND>>, TRUE,
                         <<TextEdit(diags[k].range, TextIn(text, diags[k].range))>>)]
          [] state.act = "none" -> <<>>
          [] state.act = "refactor" ->
                 IF diags = <<>> THEN <<>>
                 ELSE << QuickfixAction(<<"refactor">>, TRUE, canon(1)),
                         QuickfixAction(<<>>, TRUE, canon(1)),
                         QuickfixAction(<<"quickfix", "es">>, TRUE, canon(1)) >>
          [] state.act = "mixed" ->
                 IF diags = <<>> THEN <<>>
                 ELSE << QuickfixAction(<<"refactor">>, TRUE,
                             <<TextEdit(RangeOf(text, 0, 0), <<"r">>)>>),
                         QuickfixAction(<<"quickfix", ".", "rewrite">>, TRUE,
                             canon(Len(diags))),
                         QuickfixAction(<<QUICKFIX_ACTION_KIND>>, TRUE, canon(1)) >>
          [] state.act = "noChanges" ->
                 IF diags = <<>> THEN <<>>
                 ELSE <<QuickfixAction(<<QUICKFIX_ACTION_KIND>>, FALSE, <<>>)>>
          [] state.act = "emptyEdits" ->
                 IF diags = <<>> THEN <<>>
                 ELSE <<QuickfixAction(<<QUICKFIX_ACTION_KIND>>, TRUE, <<>>)>>
          [] state.act = "partial" ->
                 IF diags # <<>> /\ diags[1].range.start = positionAt(text, 0)
                 THEN <<QuickfixAction(<<QUICKFIX_ACTION_KIND>>, TRUE, canon(1))>>
                 ELSE <<>>

----------------------------------------------------------------------------
(* getQuickfixes, code-actions.ts lines 21-61 *)

\* diagnostics.map(...): source defaulted to "tailwindcss".
lspDiagnostics(diagnostics) ==
    [k \in 1..Len(diagnostics) |->
        [range |-> diagnostics[k].range,
         severity |-> diagnostics[k].severity,
         code |-> diagnostics[k].code,
         source |-> IF diagnostics[k].source = "" THEN "tailwindcss"
                    ELSE diagnostics[k].source]]

CodeActionParams(document, diagnostics) ==
    [range |-> [start |-> [line |-> 0, character |-> 0],
                end |-> [line |-> lineCount(document.text), character |-> 0]],
     context |-> [diagnostics |-> lspDiagnostics(diagnostics)]]

\* The same test on the first piece of the kind only: "quickfixes" passes it.
IsQuickfixPrefix(action) ==
    /\ Len(action.kind) >= 1
    /\ action.kind[1] = QUICKFIX_ACTION_KIND

\* action.kind === QUICKFIX_ACTION_KIND || action.kind?.startsWith("quickfix.")
IsQuickfix(action) ==
    \/ action.kind = <<QUICKFIX_ACTION_KIND>>
    \/ /\ Len(action.kind) >= 2
       /\ action.kind[1] = QUICKFIX_ACTION_KIND
       /\ action.kind[2] = "."

\* codeActions.filter(...), on the actions lo..hi: the engine's order is kept.
RECURSIVE FilterQuickfixes(_, _, _)
FilterQuickfixes(codeActions, lo, hi) ==
    IF lo > hi THEN <<>>
    ELSE IF lo = hi
         THEN (IF IsQuickfix(codeActions[lo]) THEN <<codeActions[lo]>> ELSE <<>>)
    ELSE LET mid == (lo + hi) \div 2
         IN  FilterQuickfixes(codeActions, lo, mid)
                 \o FilterQuickfixes(codeActions, mid + 1, hi)

\* A call of the engine: the operation and the arguments it is given.
EngineCall(op, document, params) == [op |-> op, document |-> document, params |-> params]

\* doValidate(state, document) takes no params.
NoParams == CodeActionParams(TextDocumentCreate(0, <<>>), <<>>)

\* getQuickfixes up to its await, lines 27-54: the doCodeActions call it makes.
getQuickfixesCall(document, diagnostics) ==
    EngineCall("codeActions", document, CodeActionParams(document, diagnostics))

\* getQuickfixes after its await, lines 56-60: the filter on the engine's answer.
getQuickfixesFilter(state, sent) ==
    LET codeActions == doCodeActions(state, sent.params, sent.document)
    IN  FilterQuickfixes(codeActions, 1, Len(codeActions))

getQuickfixes(state, document, diagnostics) ==
    getQuickfixesFilter(state, getQuickfixesCall(document, diagnostics))

----------------------------------------------------------------------------
(* applyCodeActions, code-actions.ts lines 104-186.  The function suspends *)
(* at `await doValidate` and at `await doCodeActions`; what runs between   *)
(* two suspensions is one step.                                            *)

ApplyCodeActionsResult(content, changed, fixedCount) ==
    [content |-> content, changed |-> changed, fixedCount |-> fixedCount,
     maxIterationsReached |-> FALSE]      \* the field is never set: undefined

IdleLoop ==
    [pc |-> "idle", content |-> <<>>,
     currentDocument |-> TextDocumentCreate(0, <<>>), currentContent |-> <<>>,
     totalFixed |-> 0, iteration |-> 0, currentDiagnostics |-> <<>>,
     result |-> ApplyCodeActionsResult(<<>>, FALSE, 0), exit |-> "",
     validateCalls |-> 0, codeActionCalls |-> 0, documents |-> 0, warned |-> FALSE,
     error |-> NoError,
     diagnostics |-> <<>>,                \* the diagnostics the caller gave
     sent |-> EngineCall("", TextDocumentCreate(0, <<>>), NoParams)]
                                          \* the engine call made last

\* The same check with the comparison wrong: it never short-circuits.
ShortCircuitNever(diagnostics) == Len(diagnostics) < 0

\* if (diagnostics.length === 0), line 110
ShortCircuit(diagnostics) == Len(diagnostics) = 0

\* The same bound, one iteration long.
LoopConditionInclusive(iteration) == iteration <= MAX_FIX_ITERATIONS

\* The same bound, one iteration short.
LoopConditionOffByOne(iteration) == iteration < MAX_FIX_ITERATIONS - 1

\* iteration < MAX_FIX_ITERATIONS, line 127
LoopCondition(iteration) == iteration < MAX_FIX_ITERATIONS

\* iteration === MAX_FIX_ITERATIONS - 1, line 157
AtLastIteration(iteration) == iteration = MAX_FIX_ITERATIONS - 1

\* The same return statement taking a counted fix for a changed content.
LoopResultChangedByCount(l) ==
    ApplyCodeActionsResult(l.currentContent, l.totalFixed > 0, l.totalFixed)

\* The same return statement giving back the content the call was given.
LoopResultOriginal(l) == ApplyCodeActionsResult(l.content, FALSE, 0)

\* The return statement after the loop, lines 164-168.
LoopResult(l) ==
    ApplyCodeActionsResult(l.currentContent, l.currentContent # l.content, l.totalFixed)

Return(l, exit) == [l EXCEPT !.pc = "returned", !.result = LoopResult(l), !.exit = exit]

\* message.includes("Cannot read") || message.includes("undefined"), line 173
CrashSignature(kind) == kind = "crash"

\* The same catch block returning, on a crash, what the loop has done so far.
CatchKeepsDraft(l, kind) ==
    IF kind = "crash"
    THEN [l EXCEPT !.pc = "returned", !.exit = "crashed",
                   !.result = ApplyCodeActionsResult(l.currentContent,
                                  l.currentContent # l.content, l.totalFixed)]
    ELSE [l EXCEPT !.pc = "threw", !.exit = "threw", !.error = Error(kind, 0)]

\* The catch block, lines 169-185: on the crash signature warn and return the
\* content as it was given; any other error is thrown again as it is.
Catch(l, kind) ==
    IF CrashSignature(kind)
    THEN [l EXCEPT !.pc = "returned", !.exit = "crashed",
                   !.result = ApplyCodeActionsResult(l.content, FALSE, 0)]
    ELSE [l EXCEPT !.pc = "threw", !.exit = "threw", !.error = Error(kind, 0)]

\* The head of the for loop: the next iteration's doValidate call, or the return.
NextIteration(l) ==
    IF LoopCondition(l.iteration)
    THEN [l EXCEPT !.pc = "awaitValidate", !.validateCalls = @ + 1,
                   !.sent = EngineCall("validate", l.currentDocument, NoParams)]
    ELSE Return(l, "bound")

\* The call, up to its first suspension or its immediate return.
StartLoop(content, diagnostics) ==
    IF ShortCircuit(diagnostics)
    THEN [IdleLoop EXCEPT !.pc = "returned", !.content = content, !.exit = "short",
                          !.diagnostics = diagnostics,
                          !.result = ApplyCodeActionsResult(content, FALSE, 0)]
    ELSE NextIteration([IdleLoop EXCEPT
             !.content = content,
             !.diagnostics = diagnostics,
             !.currentDocument = TextDocumentCreate(1, content),
             !.documents = 1,
             !.currentContent = content])

\* The same step without the break on an empty diagnostics list.
AfterValidateNoBreak(state, l) ==
    [l EXCEPT !.currentDiagnostics = doValidate(state, l.sent.document),
              !.codeActionCalls = @ + 1,
              !.sent = getQuickfixesCall(l.currentDocument,
                                         doValidate(state, l.sent.document)),
              !.pc = "awaitActions"]

\* The same step asking for the quickfixes of the diagnostics the caller gave.
AfterValidateCallerDiagnostics(state, l) ==
    LET currentDiagnostics == doValidate(state, l.sent.document)
    IN  IF Len(currentDiagnostics) = 0
        THEN Return([l EXCEPT !.currentDiagnostics = currentDiagnostics], "converged")
        ELSE [l EXCEPT !.currentDiagnostics = currentDiagnostics,
                       !.codeActionCalls = @ + 1,
                       !.sent = getQuickfixesCall(l.currentDocument, l.diagnostics),
                       !.pc = "awaitActions"]

\* doValidate has answered: break on no diagnostics, else ask for the quickfixes.
AfterValidate(state, l) ==
    LET currentDiagnostics == doValidate(state, l.sent.document)
        thrown == doValidateThrows(state, l.sent.document)
    IN  IF thrown # "none" THEN Catch(l, thrown)
        ELSE IF Len(currentDiagnostics) = 0
        THEN Return([l EXCEPT !.currentDiagnostics = currentDiagnostics], "converged")
        ELSE [l EXCEPT !.currentDiagnostics = currentDiagnostics,
                       !.codeActionCalls = @ + 1,
                       !.sent = getQuickfixesCall(l.currentDocument, currentDiagnostics),
                       !.pc = "awaitActions"]

\* The same step counting the fix before it knows that the quickfix has edits.
AfterCodeActionsCountFirst(state, l) ==
    LET quickfixes == getQuickfixesFilter(state, l.sent)
    IN  IF Len(quickfixes) = 0 THEN Return(l, "noQuickfix")
        ELSE LET counted == [l EXCEPT !.totalFixed = @ + 1]
                 fixResult == applyFirstQuickfix(quickfixes[1], l.currentDocument,
                                                 l.currentContent)
             IN  IF fixResult.isNull THEN Return(counted, "noEdits")
                 ELSE NextIteration([counted EXCEPT
                          !.currentContent = fixResult.content,
                          !.currentDocument =
                              TextDocumentCreate(l.currentDocument.version + 1,
                                                 fixResult.content),
                          !.documents = @ + 1,
                          !.warned = @ \/ AtLastIteration(l.iteration),
                          !.iteration = @ + 1])

\* The same step creating the next document at the version of the current one.
AfterCodeActionsSameVersion(state, l) ==
    LET quickfixes == getQuickfixesFilter(state, l.sent)
    IN  IF Len(quickfixes) = 0 THEN Return(l, "noQuickfix")
        ELSE LET fixResult == applyFirstQuickfix(quickfixes[1], l.currentDocument,
                                                 l.currentContent)
             IN  IF fixResult.isNull THEN Return(l, "noEdits")
                 ELSE NextIteration([l EXCEPT
                          !.currentContent = fixResult.content,
                          !.currentDocument =
                              TextDocumentCreate(l.currentDocument.version,
                                                 fixResult.content),
                          !.documents = @ + 1,
                          !.totalFixed = @ + 1,
                          !.warned = @ \/ AtLastIteration(l.iteration),
                          !.iteration = @ + 1])

\* doCodeActions has answered: filter, apply the first quickfix, count, go on.
AfterCodeActions(state, l) ==
    LET quickfixes == getQuickfixesFilter(state, l.sent)
        thrown == doCodeActionsThrows(state, l.sent.document)
    IN  IF thrown # "none" THEN Catch(l, thrown)
        ELSE IF Len(quickfixes) = 0 THEN Return(l, "noQuickfix")
        ELSE LET fixResult == applyFirstQuickfix(quickfixes[1], l.currentDocument,
                                                 l.currentContent)
             IN  IF fixResult.isNull THEN Return(l, "noEdits")
                 ELSE NextIteration([l EXCEPT
                          !.currentContent = fixResult.content,
                          !.currentDocument =
                              TextDocumentCreate(l.currentDocument.version + 1,
                                                 fixResult.content),
                          !.documents = @ + 1,
                          !.totalFixed = @ + 1,
                          !.warned = @ \/ AtLastIteration(l.iteration),
                          !.iteration = @ + 1])

LoopValidated(i) ==
    /\ loop[i].pc = "awaitValidate"
    /\ loop' = [loop EXCEPT ![i] = AfterValidate(engine, loop[i])]

LoopActions(i) ==
    /\ loop[i].pc = "awaitActions"
    /\ loop' = [loop EXCEPT ![i] = AfterCodeActions(engine, loop[i])]

----------------------------------------------------------------------------
(* Direct calls of applyCodeActions: a call with any content and initial   *)
(* diagnostics, then further calls on the content the last call returned.  *)

Contents == SeqsUpTo({"a", "b", NL}, MaxLen)

\* Contents on which a failing engine throws.
TripContents == {<<"t">>, <<"b", "t">>, <<"b", "u", "b">>}

\* The diagnostics a caller may pass: none, a stale one, the engine's current ones.
DiagnosticsFor(state, content) ==
    { <<>>,
      <<[Diagnostic(RangeOf(content, 0, 0)) EXCEPT !.source = ""]>>,
      doValidate(state, TextDocumentCreate(1, content)) }

EditIdle ==
    /\ edPc = "off"
    /\ edOut = NullFix
    /\ edIn = [action |-> QuickfixAction(<<>>, FALSE, <<>>),
               document |-> TextDocumentCreate(0, <<>>),
               content |-> <<>>]

LoopInit ==
    /\ engine \in Engines \cup FailingEngines
    /\ \E content \in (IF engine.fail = "none" THEN Contents ELSE TripContents) :
         \E diagnostics \in DiagnosticsFor(engine, content) :
            call = [content |-> content, diagnostics |-> diagnostics]
    /\ history = <<>>
    /\ loop = [k \in {1} |-> IdleLoop]
    /\ EditIdle
    /\ PureIdle
    /\ LintIdle

DirectCall ==
    /\ loop[1].pc = "idle"
    /\ Len(history) < MaxCalls
    /\ loop' = [loop EXCEPT ![1] = StartLoop(call.content, call.diagnostics)]
    /\ UNCHANGED <<engine, call, history, editVars, pureVars, lintVars>>

DirectValidated ==
    /\ LoopValidated(1)
    /\ UNCHANGED <<engine, call, history, editVars, pureVars, lintVars>>

DirectActions ==
    /\ LoopActions(1)
    /\ UNCHANGED <<engine, call, history, editVars, pureVars, lintVars>>

DirectReturn ==
    /\ loop[1].pc \in {"returned", "threw"}
    /\ history' = Append(history, [call |-> call, loop |-> loop[1]])
    /\ LET content == IF loop[1].pc = "threw" THEN call.content
                      ELSE loop[1].result.content
       IN  \E diagnostics \in DiagnosticsFor(engine, content) :
               call' = [content |-> content, diagnostics |-> diagnostics]
    /\ loop' = [loop EXCEPT ![1] = IdleLoop]
    /\ UNCHANGED <<engine, editVars, pureVars, lintVars>>

LoopNext ==
    \/ DirectCall
    \/ DirectValidated
    \/ DirectActions
    \/ DirectReturn

SpecLoop == LoopInit /\ [][LoopNext]_vars

----------------------------------------------------------------------------
(* utils/fs.ts *)

Missing == [exists |-> FALSE, content |-> <<>>]
File(content) == [exists |-> TRUE, content |-> content]

fileExists(d, path) == d[path].exists
readFileSync(d, path) == d[path].content
writeFileSync(d, path, content) == [d EXCEPT ![path] = File(content)]

----------------------------------------------------------------------------
(* linter.ts: serializeDiagnostics, validateDocument, processFile.         *)
(* processFile suspends at each `await validateDocument` (its doValidate)  *)
(* and at `await applyCodeActions`.                                        *)

\* severity: diagnostic.severity || 2 (an absent severity is held as 0).
\* code: diagnostic.code?.toString(); the codes here are strings or absent ("").
serializeDiagnostics(diagnostics) ==
    [k \in 1..Len(diagnostics) |->
        [range |-> diagnostics[k].range,
         severity |-> IF diagnostics[k].severity = 0 THEN 2 ELSE diagnostics[k].severity,
         message |-> diagnostics[k].code,
         code |-> diagnostics[k].code,
         source |-> diagnostics[k].source]]

\* The same test recognising no message.
ValidateCrashSignatureNever(kind) == FALSE

\* message.includes("Cannot read") || message.includes("undefined"), line 82
ValidateCrashSignature(kind) == kind = "crash"

\* Whether validateDocument logs its warning: doValidate threw with the crash
\* signature, lines 82-87.
validateDocumentWarns(state, content) ==
    ValidateCrashSignature(doValidateThrows(state, TextDocumentCreate(1, content)))

\* The error validateDocument throws, line 89: any other error of doValidate,
\* with the file path put into its message.  NoError: it resolves.
validateDocumentThrows(state, path, content) ==
    LET thrown == doValidateThrows(state, TextDocumentCreate(1, content))
    IN  IF thrown = "none" \/ ValidateCrashSignature(thrown) THEN NoError
        ELSE Error("other", path)

\* What validateDocument resolves to once doValidate has answered.
validateDocument(state, content) ==
    IF validateDocumentWarns(state, content) THEN <<>>
    ELSE serializeDiagnostics(doValidate(state, TextDocumentCreate(1, content)))

LintFileResult(path, diagnostics, fixed, fixedCount) ==
    [path |-> path, diagnostics |-> diagnostics, fixed |-> fixed,
     fixedCount |-> fixedCount,
     maxIterationsReached |-> FALSE]      \* the field is never set: undefined

IdleTask ==
    [pc |-> "idle", content |-> <<>>, diagnostics |-> <<>>,
     wasFixed |-> FALSE, fixedCount |-> 0,
     ops |-> <<>>,                        \* what was done for this list entry, in order
     hasResult |-> FALSE,                 \* FALSE: processFile returned null
     result |-> LintFileResult(0, <<>>, FALSE, 0),
     error |-> NoError]                   \* what processFile threw

\* processFile throws: its promise rejects.
ThrowFile(t, error) == [t EXCEPT !.pc = "rejected", !.error = error]

\* The validateDocument call of t has answered: the warning, if any, is logged.
Validated(t, state) ==
    IF validateDocumentWarns(state, t.content) THEN [t EXCEPT !.ops = Append(@, "warn")]
    ELSE t

\* processFile's promises still run after Promise.all has rejected.
Running == lintPc \in {"awaitAll", "rejected"}

\* processFile's return statement, lines 292-297.
ReturnFile(t, path) ==
    [t EXCEPT !.pc = "settled", !.hasResult = TRUE,
              !.result = LintFileResult(path, t.diagnostics, t.wasFixed, t.fixedCount)]

\* The same start without the existence check.
processFileStartNoCheck(t, d, path) ==
    [t EXCEPT !.ops = @ \o <<"exists", "read", "validate">>,
              !.content = readFileSync(d, path),
              !.pc = "awaitValidate"]

\* processFile up to its first suspension, lines 261-270.
processFileStart(t, d, path) ==
    IF ~fileExists(d, path)
    THEN [t EXCEPT !.ops = Append(@, "exists"), !.pc = "awaitNull"]
    ELSE [t EXCEPT !.ops = @ \o <<"exists", "read", "validate">>,
                   !.content = readFileSync(d, path),
                   !.pc = "awaitValidate"]

\* The same callback reporting progress after it has started the file.
mapCallbackProgressLast(t, d, path) ==
    LET started == processFileStart(t, d, path)
    IN  [started EXCEPT !.ops = Append(@, "progress")]

\* The batch.map callback up to its first suspension, lines 233-239.
mapCallback(t, d, path) ==
    processFileStart([t EXCEPT !.ops = Append(@, "progress")], d, path)

\* onProgress(fileIndex + 1, files.length, file), line 236
ProgressCall(fileIndex, total, file) ==
    [current |-> fileIndex + 1, total |-> total, file |-> file]

\* The same condition without the fix flag.
ShouldFixAlways(fixFlag, diagnostics) == Len(diagnostics) > 0

\* if (fix && diagnostics.length > 0), line 275
ShouldFix(fixFlag, diagnostics) == fixFlag /\ Len(diagnostics) > 0

\* files.slice(i, i + CONCURRENT_FILES): the index after the batch's last entry.
BatchEnd(start, n) == Min(start + CONCURRENT_FILES, n)

\* Waiting for the first promise of the batch only (Promise.race).
BatchSettledAny(t, start, end) == \E k \in (start + 1)..end : t[k].pc = "settled"

\* await Promise.all(batchPromises), line 243
BatchSettled(t, start, end) == \A k \in (start + 1)..end : t[k].pc = "settled"

\* for (const result of batchResults) if (result) results.push(result)
RECURSIVE BatchResults(_, _, _)
BatchResults(t, from, end) ==
    IF from > end THEN <<>>
    ELSE (IF t[from].hasResult THEN <<t[from].result>> ELSE <<>>)
             \o BatchResults(t, from + 1, end)

\* The same filter without `|| result.fixed`.
RECURSIVE ReportedFilesWithDiagnostics(_)
ReportedFilesWithDiagnostics(rs) ==
    IF rs = <<>> THEN <<>>
    ELSE (IF Len(Head(rs).diagnostics) > 0 THEN <<Head(rs)>> ELSE <<>>)
             \o ReportedFilesWithDiagnostics(Tail(rs))

\* results.filter(result => result.diagnostics.length > 0 || result.fixed)
RECURSIVE ReportedFiles(_)
ReportedFiles(rs) ==
    IF rs = <<>> THEN <<>>
    ELSE (IF Len(Head(rs).diagnostics) > 0 \/ Head(rs).fixed THEN <<Head(rs)>> ELSE <<>>)
             \o ReportedFiles(Tail(rs))

N == Len(files)

\* lint after state initialisation and file discovery, lines 339-343.
LintStart ==
    /\ lintPc = "start"
    /\ IF N = 0
       THEN /\ lintPc' = "done"
            /\ lintResult' = [files |-> <<>>, totalFilesProcessed |-> 0]
       ELSE /\ lintPc' = "dispatch"
            /\ UNCHANGED lintResult
    /\ UNCHANGED <<fix, files, disk, disk0, batchStart, next, task, results, progress>>
    /\ UNCHANGED <<loopVars, editVars, pureVars>>

\* batch.map runs its callback for the next entry of the batch; the callbacks of
\* one batch all run before anything that was suspended resumes.
Dispatch ==
    /\ lintPc = "dispatch"
    /\ next < BatchEnd(batchStart, N)
    /\ LET k == next + 1
       IN  /\ progress' = Append(progress, ProgressCall(k - 1, N, files[k]))
           /\ task' = [task EXCEPT ![k] = mapCallback(task[k], disk, files[k])]
           /\ next' = k
           /\ lintPc' = IF k = BatchEnd(batchStart, N) THEN "awaitAll" ELSE "dispatch"
    /\ UNCHANGED <<fix, files, disk, disk0, batchStart, results, lintResult>>
    /\ UNCHANGED <<loopVars, editVars, pureVars>>

\* processFile returned null: the callback's promise settles.
FileSkipped(k) ==
    /\ Running
    /\ task[k].pc = "awaitNull"
    /\ task' = [task EXCEPT ![k] = [@ EXCEPT !.pc = "settled"]]
    /\ UNCHANGED <<fix, files, disk, disk0, batchStart, next, results, progress,
                   lintPc, lintResult>>
    /\ UNCHANGED <<loopVars, editVars, pureVars>>

\* The first validateDocument has answered, lines 270-281.
FileValidated(k) ==
    /\ Running
    /\ task[k].pc = "awaitValidate"
    /\ LET diagnostics == validateDocument(engine, task[k].content)
           error == validateDocumentThrows(engine, files[k], task[k].content)
           t == [Validated(task[k], engine) EXCEPT !.diagnostics = diagnostics]
       IN  IF error # NoError
           THEN /\ task' = [task EXCEPT ![k] = ThrowFile(task[k], error)]
                /\ UNCHANGED loop
           ELSE IF ShouldFix(fix, diagnostics)
           THEN /\ task' = [task EXCEPT ![k] =
                               [t EXCEPT !.pc = "awaitFix",
                                         !.ops = Append(@, "applyCodeActions")]]
                /\ loop' = [loop EXCEPT ![k] = StartLoop(t.content, diagnostics)]
           ELSE /\ task' = [task EXCEPT ![k] = ReturnFile(t, files[k])]
                /\ UNCHANGED loop
    /\ UNCHANGED <<fix, files, disk, disk0, batchStart, next, results, progress,
                   lintPc, lintResult>>
    /\ UNCHANGED <<engine, call, history, editVars, pureVars>>

FileLoopValidated(k) ==
    /\ Running
    /\ task[k].pc = "awaitFix"
    /\ LoopValidated(k)
    /\ UNCHANGED <<engine, call, history, editVars, pureVars, lintVars>>

FileLoopActions(k) ==
    /\ Running
    /\ task[k].pc = "awaitFix"
    /\ LoopActions(k)
    /\ UNCHANGED <<engine, call, history, editVars, pureVars, lintVars>>

\* The same step taking over fixedCount also when the content is unchanged.
FileFixedAlwaysCounts(k) ==
    /\ Running
    /\ task[k].pc = "awaitFix"
    /\ loop[k].pc \in {"returned", "threw"}
    /\ LET fixResult == loop[k].result
       IN  IF loop[k].pc = "threw"
           THEN /\ task' = [task EXCEPT ![k] = ThrowFile(task[k], loop[k].error)]
                /\ UNCHANGED disk
           ELSE IF fixResult.changed
           THEN /\ disk' = writeFileSync(disk, files[k], fixResult.content)
                /\ task' = [task EXCEPT ![k] =
                               [@ EXCEPT !.content = fixResult.content,
                                         !.wasFixed = TRUE,
                                         !.fixedCount = fixResult.fixedCount,
                                         !.ops = @ \o <<"write", "validate">>,
                                         !.pc = "awaitRevalidate"]]
           ELSE /\ task' = [task EXCEPT ![k] =
                               ReturnFile([task[k] EXCEPT
                                              !.fixedCount = fixResult.fixedCount],
                                          files[k])]
                /\ UNCHANGED disk
    /\ UNCHANGED <<fix, files, disk0, batchStart, next, results, progress,
                   lintPc, lintResult>>
    /\ UNCHANGED <<loopVars, editVars, pureVars>>

\* The same step writing whatever applyCodeActions returned, changed or not.
FileFixedAlwaysWrite(k) ==
    /\ Running
    /\ task[k].pc = "awaitFix"
    /\ loop[k].pc = "returned"
    /\ disk' = writeFileSync(disk, files[k], loop[k].result.content)
    /\ task' = [task EXCEPT ![k] =
                   [@ EXCEPT !.content = loop[k].result.content,
                             !.wasFixed = TRUE,
                             !.fixedCount = loop[k].result.fixedCount,
                             !.ops = @ \o <<"write", "validate">>,
                             !.pc = "awaitRevalidate"]]
    /\ UNCHANGED <<fix, files, disk0, batchStart, next, results, progress,
                   lintPc, lintResult>>
    /\ UNCHANGED <<loopVars, editVars, pureVars>>

\* applyCodeActions has returned, lines 283-290.
FileFixed(k) ==
    /\ Running
    /\ task[k].pc = "awaitFix"
    /\ loop[k].pc \in {"returned", "threw"}
    /\ LET fixResult == loop[k].result
       IN  IF loop[k].pc = "threw"
           THEN /\ task' = [task EXCEPT ![k] = ThrowFile(task[k], loop[k].error)]
                /\ UNCHANGED disk
           ELSE IF fixResult.changed
           THEN /\ disk' = writeFileSync(disk, files[k], fixResult.content)
                /\ task' = [task EXCEPT ![k] =
                               [@ EXCEPT !.content = fixResult.content,
                                         !.wasFixed = TRUE,
                                         !.fixedCount = fixResult.fixedCount,
                                         !.ops = @ \o <<"write", "validate">>,
                                         !.pc = "awaitRevalidate"]]
           ELSE /\ task' = [task EXCEPT ![k] = ReturnFile(task[k], files[k])]
                /\ UNCHANGED disk
    /\ UNCHANGED <<fix, files, disk0, batchStart, next, results, progress,
                   lintPc, lintResult>>
    /\ UNCHANGED <<loopVars, editVars, pureVars>>

\* The same step keeping the diagnostics of the first validation.
FileRevalidatedKeepsFirst(k) ==
    /\ Running
    /\ task[k].pc = "awaitRevalidate"
    /\ task' = [task EXCEPT ![k] = ReturnFile(task[k], files[k])]
    /\ UNCHANGED <<fix, files, disk, disk0, batchStart, next, results, progress,
                   lintPc, lintResult>>
    /\ UNCHANGED <<loopVars, editVars, pureVars>>

\* The second validateDocument has answered, lines 288-297.
FileRevalidated(k) ==
    /\ Running
    /\ task[k].pc = "awaitRevalidate"
    /\ LET error == validateDocumentThrows(engine, files[k], task[k].content)
       IN  task' = [task EXCEPT ![k] =
                       IF error # NoError THEN ThrowFile(task[k], error)
                       ELSE ReturnFile([Validated(task[k], engine) EXCEPT !.diagnostics =
                                           validateDocument(engine, task[k].content)],
                                       files[k])]
    /\ UNCHANGED <<fix, files, disk, disk0, batchStart, next, results, progress,
                   lintPc, lintResult>>
    /\ UNCHANGED <<loopVars, editVars, pureVars>>

\* Promise.all has resolved: collect the batch's results, go on to the next batch
\* or return from processFiles and from lint, lines 243-252 and 345-350.
Join ==
    /\ lintPc = "awaitAll"
    /\ BatchSettled(task, batchStart, next)
    /\ results' = results \o BatchResults(task, batchStart + 1, next)
    /\ batchStart' = batchStart + CONCURRENT_FILES
    /\ IF batchStart' < N
       THEN /\ lintPc' = "dispatch"
            /\ UNCHANGED lintResult
       ELSE /\ lintPc' = "done"
            /\ lintResult' = [files |-> ReportedFiles(results'),
                              totalFilesProcessed |-> N]
    /\ UNCHANGED <<fix, files, disk, disk0, next, task, progress>>
    /\ UNCHANGED <<loopVars, editVars, pureVars>>

\* A promise of the batch has rejected: Promise.all rejects with its error, and
\* so do processFiles and lint, lines 243 and 343.  Nothing is cancelled.
Reject ==
    /\ lintPc = "awaitAll"
    /\ \E k \in (batchStart + 1)..next :
          /\ task[k].pc = "rejected"
          /\ lintResult' = [error |-> task[k].error]
    /\ lintPc' = "rejected"
    /\ UNCHANGED <<fix, files, disk, disk0, batchStart, next, task, results, progress>>
    /\ UNCHANGED <<loopVars, editVars, pureVars>>

LintNext ==
    \/ LintStart
    \/ Dispatch
    \/ Join
    \/ Reject
    \/ \E k \in 1..N : FileSkipped(k)
    \/ \E k \in 1..N : FileValidated(k)
    \/ \E k \in 1..N : FileLoopValidated(k)
    \/ \E k \in 1..N : FileLoopActions(k)
    \/ \E k \in 1..N : FileFixed(k)
    \/ \E k \in 1..N : FileRevalidated(k)

----------------------------------------------------------------------------
(* lint on a few files of every kind (SpecLint), and on many files of a    *)
(* few kinds (SpecBatch).                                                  *)

LintSetup(n, d, state, fixFlag) ==
    /\ engine = state
    /\ call = [content |-> <<>>, diagnostics |-> <<>>]
    /\ history = <<>>
    /\ loop = [k \in 1..n |-> IdleLoop]
    /\ fix = fixFlag
    /\ files = [k \in 1..n |-> k]
    /\ disk = d
    /\ disk0 = d
    /\ batchStart = 0
    /\ next = 0
    /\ task = [k \in 1..n |-> IdleTask]
    /\ results = <<>>
    /\ progress = <<>>
    /\ lintPc = "start"
    /\ lintResult = [files |-> <<>>, totalFilesProcessed |-> 0]
    /\ EditIdle
    /\ PureIdle

Flagged(m) == [j \in 1..m |-> "b"]

\* Contents with about as many diagnostics as the loop has iterations.
LongContents ==
    {Flagged(m) : m \in {MAX_FIX_ITERATIONS - 1, MAX_FIX_ITERATIONS, MAX_FIX_ITERATIONS + 1}}

\* The contents of the files when several files are linted together.
Palette == {<<"a">>, <<"b">>, <<"b", "a", "b">>}

\* Engines whose loop ends after a few iterations on the palette.
QuietEngines ==
    {e \in Engines :
        e.diag = "flag" /\ e.act \in {"canon", "none", "refactor", "mixed", "noChanges", "partial"}}

\* The contents of the files when the engine is one that throws.
TripPalette == {<<"a">>, <<"b">>} \cup TripContents

LintInit ==
    \E n \in 0..MaxLintFiles, fixFlag \in BOOLEAN :
        \/ \E state \in (IF n <= 1 THEN Engines ELSE QuietEngines) :
              \E d \in [1..n -> {Missing} \cup
                          {File(c) : c \in (IF n <= 1
                                            THEN SeqsUpTo({"a", "b"}, MaxLintLen) \cup LongContents
                                            ELSE Palette)}] :
                  LintSetup(n, d, state, fixFlag)
        \/ \E state \in FailingEngines :
              \E d \in [1..n -> {Missing} \cup {File(c) : c \in TripPalette}] :
                  LintSetup(n, d, state, fixFlag)

SpecLint == LintInit /\ [][LintNext]_vars

BatchSizes ==
    {1, CONCURRENT_FILES - 1, CONCURRENT_FILES, CONCURRENT_FILES + 1,
     2 * CONCURRENT_FILES, MaxFiles}

\* Every seventh file is missing, one file (or none) has a diagnostic, the others
\* are clean.
BatchDisk(n, dirtyAt) ==
    [k \in 1..n |-> IF k % 7 = 0 THEN Missing
                     ELSE IF k = dirtyAt THEN File(<<"b">>)
                     ELSE File(<<"a">>)]

\* The same disk with one more file, on which a failing engine throws.
TripDisk(n, dirtyAt, tripAt) ==
    [BatchDisk(n, dirtyAt) EXCEPT ![tripAt] = File(<<"b", "t">>)]

BatchInit ==
    \E n \in BatchSizes, fixFlag \in BOOLEAN, dirtyAt \in {0, 1, CONCURRENT_FILES + 1} :
        \/ LintSetup(n, BatchDisk(n, dirtyAt),
                     [diag |-> "flag", act |-> "canon", fail |-> "none"], fixFlag)
        \/ \E tripAt \in {2, CONCURRENT_FILES + 2}, fail \in {"crashValidate", "throwValidate"} :
              /\ n \in {CONCURRENT_FILES, MaxFiles}
              /\ tripAt <= n
              /\ dirtyAt \in {0, tripAt - 1}
              /\ LintSetup(n, TripDisk(n, dirtyAt, tripAt),
                           [diag |-> "flag", act |-> "canon", fail |-> fail], fixFlag)

SpecBatch == BatchInit /\ [][LintNext]_vars

----------------------------------------------------------------------------
(* Claims about applyCodeActions called directly (SpecLoop) *)

Returned == loop[1].pc = "returned"
ValidatesClean(content) == doValidate(engine, TextDocumentCreate(1, content)) = <<>>

\* An engine that reports a diagnostic on every document and offers exactly one
\* quickfix, with an edit, for it.
Adversarial(state) == state.diag = "always" /\ state.act \in {"canon", "same"}

\* C1: with an engine that never converges (always one diagnostic and exactly one
\* applicable quickfix), the loop stops after exactly MAX_FIX_ITERATIONS
\* iterations, fixedCount is MAX_FIX_ITERATIONS, and the result reports
\* maxIterationsReached = true.
C1_BoundSafety ==
    (Returned /\ Adversarial(engine) /\ call.diagnostics # <<>>)
        => /\ loop[1].iteration = MAX_FIX_ITERATIONS
           /\ loop[1].result.fixedCount = MAX_FIX_ITERATIONS
           /\ loop[1].result.maxIterationsReached

\* What the code does for such an engine: the iteration count and fixedCount.
BoundStopsLoop ==
    (Returned /\ Adversarial(engine) /\ call.diagnostics # <<>>)
        => /\ loop[1].iteration = MAX_FIX_ITERATIONS
           /\ loop[1].result.fixedCount = MAX_FIX_ITERATIONS
           /\ loop[1].exit = "bound"

\* C2: called with an empty diagnostics list, applyCodeActions returns the input
\* content with changed = false and fixedCount = 0, calls neither doValidate nor
\* doCodeActions, and creates no TextDocument.
C2_ShortCircuit ==
    (Returned /\ call.diagnostics = <<>>)
        => /\ loop[1].result.content = call.content
           /\ ~loop[1].result.changed
           /\ loop[1].result.fixedCount = 0
           /\ loop[1].validateCalls = 0
           /\ loop[1].codeActionCalls = 0
           /\ loop[1].documents = 0

\* C2 witness: the call has returned, nothing was passed, and the engine would
\* have reported a diagnostic with a quickfix on that content.
C2_Witness ==
    /\ Returned
    /\ call.diagnostics = <<>>
    /\ ~ValidatesClean(call.content)
    /\ engine.act = "canon"

\* C3: on a document for which validation returns no diagnostics, the loop
\* returns changed = false and fixedCount = 0 and never calls doCodeActions,
\* also when the caller passed a stale, non-empty diagnostics list.
C3_CleanDocumentUntouched ==
    (Returned /\ ValidatesClean(call.content))
        => /\ ~loop[1].result.changed
           /\ loop[1].result.fixedCount = 0
           /\ loop[1].result.content = call.content
           /\ loop[1].codeActionCalls = 0

\* C3 witness: a stale diagnostics list was passed for a clean document, the
\* loop validated it once and returned.
C3_Witness ==
    /\ Returned
    /\ call.diagnostics # <<>>
    /\ ValidatesClean(call.content)
    /\ loop[1].validateCalls = 1
    /\ engine.act = "canon"

Converged(exit) == exit \in {"converged", "noQuickfix", "noEdits"}

\* C4: when a call ended converged (no diagnostics, or diagnostics without an
\* applicable quickfix) with content c, the next call on c, with any diagnostics
\* list, returns c with changed = false and fixedCount = 0.
C4_Idempotent ==
    (Returned /\ history # <<>> /\ Converged(history[Len(history)].loop.exit))
        => /\ loop[1].result.content = call.content
           /\ ~loop[1].result.changed
           /\ loop[1].result.fixedCount = 0

\* C4 witness: the first call applied fixes and converged, the second call was
\* given a non-empty diagnostics list and has returned.
C4_Witness ==
    /\ Returned
    /\ Len(history) = 1
    /\ Converged(history[1].loop.exit)
    /\ history[1].loop.result.fixedCount >= 2
    /\ history[1].loop.result.changed
    /\ call.content = history[1].loop.result.content
    /\ call.diagnostics # <<>>

\* C4 witness, second case: the first call stopped at a quickfix without edits
\* for the document.
C4_WitnessNoEdits ==
    /\ Returned
    /\ Len(history) = 1
    /\ history[1].loop.exit = "noEdits"
    /\ call.diagnostics # <<>>

----------------------------------------------------------------------------
(* Claims about lint on a few files (SpecLint) *)

Settled(k) == task[k].pc = "settled"
Canonical == [diag |-> "flag", act |-> "canon", fail |-> "none"]

\* The number of flagged characters of a text.
FlaggedCount(text) == Len(FlaggedIn(text, 1, Len(text)))

\* The text with every flagged character rewritten to its canonical form.
RECURSIVE Canonicalized(_, _, _)
Canonicalized(text, lo, hi) ==
    IF lo > hi THEN <<>>
    ELSE IF lo = hi THEN (IF text[lo] = "b" THEN CanonText ELSE <<text[lo]>>)
    ELSE LET mid == (lo + hi) \div 2
         IN  Canonicalized(text, lo, mid) \o Canonicalized(text, mid + 1, hi)

\* C6: with fix = true and an engine whose quickfix for a diagnostic removes that
\* diagnostic and adds none, a file with n diagnostics, 1 <= n <=
\* MAX_FIX_ITERATIONS, ends with fixed = true, fixedCount = n and no diagnostics,
\* and the file on disk holds every replacement and no flagged text.
C6_FullConvergence ==
    \A k \in 1..N :
        (/\ Settled(k)
         /\ fix
         /\ engine = Canonical
         /\ disk0[files[k]].exists
         /\ FlaggedCount(disk0[files[k]].content) \in 1..MAX_FIX_ITERATIONS)
        => LET before == disk0[files[k]].content
               after == disk[files[k]].content
           IN  /\ task[k].hasResult
               /\ task[k].result.fixed
               /\ task[k].result.fixedCount = FlaggedCount(before)
               /\ task[k].result.diagnostics = <<>>
               /\ after = Canonicalized(before, 1, Len(before))
               /\ FlaggedCount(after) = 0

\* C6 witness: a file with exactly MAX_FIX_ITERATIONS diagnostics has been fixed.
C6_Witness ==
    /\ lintPc = "done"
    /\ fix
    /\ engine = Canonical
    /\ N = 1
    /\ disk0[files[1]].exists
    /\ FlaggedCount(disk0[files[1]].content) = MAX_FIX_ITERATIONS
    /\ task[1].result.fixedCount = MAX_FIX_ITERATIONS

Contains(seq, x) == \E m \in 1..Len(seq) : seq[m] = x

\* C7: with fix = false applyCodeActions is never called and no file is written:
\* the disk is unchanged, every result has fixed = false and fixedCount = 0 and
\* carries the diagnostics of the first validation.
C7_NoFixNoWrite ==
    ~fix =>
        /\ disk = disk0
        /\ \A k \in 1..N :
            /\ loop[k] = IdleLoop
            /\ ~Contains(task[k].ops, "applyCodeActions")
            /\ ~Contains(task[k].ops, "write")
            /\ (Settled(k) /\ task[k].hasResult)
                   => /\ ~task[k].result.fixed
                      /\ task[k].result.fixedCount = 0
                      /\ task[k].result.diagnostics =
                             validateDocument(engine, disk0[files[k]].content)

\* C7 witness: lint has returned with fix = false for a file with two diagnostics
\* that the engine could have fixed.
C7_Witness ==
    /\ lintPc = "done"
    /\ ~fix
    /\ engine = Canonical
    /\ \E k \in 1..N : /\ task[k].hasResult
                       /\ Len(task[k].result.diagnostics) = 2
                       /\ Len(lintResult.files) >= 1

CleanAtFirst(k) ==
    /\ disk0[files[k]].exists
    /\ validateDocument(engine, disk0[files[k]].content) = <<>>

InReport(k) == \E j \in 1..Len(lintResult.files) : lintResult.files[j].path = files[k]

\* C8: the files list lint returns holds exactly the results of the processed
\* files that have a diagnostic or were fixed; a file that is clean at its first
\* validation is unchanged on disk (also with fix = true) and absent from the
\* list; totalFilesProcessed is the number of discovered files.
C8_ReportedFiles ==
    lintPc = "done" =>
        /\ lintResult.totalFilesProcessed = N
        /\ \A j \in 1..Len(lintResult.files) :
               \E k \in 1..N : /\ task[k].hasResult
                               /\ lintResult.files[j] = task[k].result
        /\ \A j1, j2 \in 1..Len(lintResult.files) :
               j1 # j2 => lintResult.files[j1].path # lintResult.files[j2].path
        /\ \A k \in 1..N :
               /\ InReport(k) <=>
                      /\ task[k].hasResult
                      /\ (Len(task[k].result.diagnostics) > 0 \/ task[k].result.fixed)
               /\ CleanAtFirst(k) => (disk[files[k]] = disk0[files[k]] /\ ~InReport(k))

\* C8 witness: with fix = true, of two files one was clean and left out, the other
\* was fixed, has no diagnostics left, and is listed.
C8_Witness ==
    /\ lintPc = "done"
    /\ fix
    /\ N = 2
    /\ CleanAtFirst(1)
    /\ ~InReport(1)
    /\ InReport(2)
    /\ task[2].result.fixed
    /\ task[2].result.diagnostics = <<>>
    /\ lintResult.totalFilesProcessed = 2

----------------------------------------------------------------------------
(* Claims about the batches of processFiles (SpecBatch) *)

Dispatched(k) == task[k].pc # "idle"
InFlight == {k \in 1..N : task[k].pc \notin {"idle", "settled", "rejected"}}

\* The number of the batch of list entry k (0 for the first batch).
BatchOf(k) == (k - 1) \div CONCURRENT_FILES

\* C9: the list is processed in consecutive batches of CONCURRENT_FILES; no entry
\* of a later batch is dispatched, and its progress callback is not invoked,
\* before every operation of the earlier batches has settled; the callbacks come
\* in waves that end at 10, 20, 25 for 25 files; never more than CONCURRENT_FILES
\* operations are in flight.
C9_BatchBarrier ==
    /\ Len(progress) = next
    /\ \A k \in 1..N : Dispatched(k) <=> k <= next
    /\ \A k \in 1..N, j \in 1..N :
           (Dispatched(k) /\ BatchOf(j) < BatchOf(k)) => Settled(j)
    /\ Cardinality(InFlight) <= CONCURRENT_FILES
    /\ lintPc = "awaitAll" =>
           /\ batchStart % CONCURRENT_FILES = 0
           /\ next = Min(batchStart + CONCURRENT_FILES, N)
    /\ (lintPc = "awaitAll" /\ N = 25) => Len(progress) \in {10, 20, 25}

\* C9 witness: 25 files, the second wave of ten is dispatched and all ten of its
\* operations are in flight.
C9_Witness ==
    /\ N = 25
    /\ lintPc = "awaitAll"
    /\ batchStart = CONCURRENT_FILES
    /\ Len(progress) = 20
    /\ Cardinality(InFlight) = CONCURRENT_FILES

\* C10: onProgress is invoked once per list entry, skipped entries included, with
\* current = 1..N in ascending order and total = N, and for each entry before its
\* existence check, read, validation or write.
C10_ProgressOncePerEntry ==
    /\ \A j \in 1..Len(progress) :
           progress[j] = [current |-> j, total |-> N, file |-> files[j]]
    /\ lintPc = "done" => Len(progress) = N
    /\ \A k \in 1..N :
           task[k].ops # <<>> =>
               /\ task[k].ops[1] = "progress"
               /\ \A m \in 2..Len(task[k].ops) : task[k].ops[m] # "progress"

\* C10 witness: lint has returned for 25 files; entry 7 did not exist and was
\* skipped after its callback, entry 1 was fixed and written after its callback.
C10_Witness ==
    /\ lintPc = "done"
    /\ N = 25
    /\ Len(progress) = 25
    /\ task[7].ops = <<"progress", "exists">>
    /\ ~task[7].hasResult
    /\ Contains(task[1].ops, "write")

----------------------------------------------------------------------------
(* Claims about processFile and the disk (SpecLint) *)

\* How many times x occurs in seq.
Count(seq, x) == Cardinality({m \in 1..Len(seq) : seq[m] = x})

\* C11: a file is written at most once, only after applyCodeActions has returned
\* for it and only if it reported changed = true, and what is written is the
\* content it returned; until then the file holds its original content.
C11_WriteOnceAfterLoop ==
    \A k \in 1..N :
        LET writes == Count(task[k].ops, "write")
        IN  /\ writes <= 1
            /\ writes = 0 => disk[files[k]] = disk0[files[k]]
            /\ writes = 1 => /\ loop[k].pc = "returned"
                             /\ loop[k].result.changed
                             /\ disk[files[k]] = File(loop[k].result.content)

\* C11 witness: a file was written once after a loop of two fixes; the content
\* after the first fix alone was never on disk.
C11_Witness ==
    \E k \in 1..N :
        /\ Settled(k)
        /\ Count(task[k].ops, "write") = 1
        /\ loop[k].result.fixedCount = 2
        /\ disk[files[k]] # disk0[files[k]]

----------------------------------------------------------------------------
(* Claims about the iteration bound (SpecLoop) *)

\* The loop ended because iteration reached MAX_FIX_ITERATIONS.
BoundReached(l) == l.pc = "returned" /\ l.exit = "bound"

\* Diagnostics remain on the document the loop ended with.
DiagnosticsRemain(l) == doValidate(engine, l.currentDocument) # <<>>

\* C12: the result's maxIterationsReached is set exactly when the bound was
\* reached and diagnostics remain on the final document.
C12_FlagIffBoundWithDiagnostics ==
    Returned =>
        (loop[1].result.maxIterationsReached
             <=> (BoundReached(loop[1]) /\ DiagnosticsRemain(loop[1])))

\* What the code does instead: no result ever has the flag.
FlagNeverSet == Returned => ~loop[1].result.maxIterationsReached

----------------------------------------------------------------------------
(* Claims about the bound as lint reports it (SpecLint) *)

\* C13: when the loop of a file ended at the iteration bound with diagnostics
\* remaining (the case in which it is to report maxIterationsReached), the
\* file's result record carries maxIterationsReached = true.
C13_FlagForwarded ==
    \A k \in 1..N :
        (/\ Settled(k)
         /\ task[k].hasResult
         /\ BoundReached(loop[k])
         /\ DiagnosticsRemain(loop[k]))
        => task[k].result.maxIterationsReached

\* What the code does instead: no file's record ever has the flag.
RecordFlagNeverSet ==
    \A k \in 1..N : task[k].hasResult => ~task[k].result.maxIterationsReached

\* C14: when the loop stops because iteration reached MAX_FIX_ITERATIONS, exactly
\* one more validation of the final document is made (one per iteration, plus
\* one), and the warning is emitted if and only if diagnostics remain on it.
C14_FinalValidationDecidesWarning ==
    \A k \in 1..N :
        BoundReached(loop[k])
        => /\ loop[k].validateCalls = MAX_FIX_ITERATIONS + 1
           /\ loop[k].warned <=> DiagnosticsRemain(loop[k])

\* What the code does instead: at the bound it has validated once per iteration
\* and has warned, whatever remains.
WarnsAtBoundRegardless ==
    \A k \in 1..N :
        BoundReached(loop[k])
        => /\ loop[k].validateCalls = MAX_FIX_ITERATIONS
           /\ loop[k].warned

\* The loop has fixed the last of MAX_FIX_ITERATIONS diagnostics in its last
\* iteration: nothing remains, and it has warned.
WarnedWithNothingLeft ==
    \E k \in 1..N :
        /\ BoundReached(loop[k])
        /\ ~DiagnosticsRemain(loop[k])
        /\ loop[k].warned

----------------------------------------------------------------------------
(* Claims about files that do not exist (SpecBatch) *)

Existing == {k \in 1..N : disk0[files[k]].exists}
InResults(k) == \E j \in 1..Len(results) : results[j].path = files[k]

\* C15: a listed file that does not exist is skipped: nothing is read, validated
\* or written for it, it has no result and no entry in results, its promise does
\* not reject (nor does lint, unless the engine throws for another file), and when lint
\* returns every other file, of its batch and of later batches, has its result
\* in results.
C15_MissingFileSkipped ==
    /\ \A k \in (1..N) \ Existing :
           /\ task[k].ops \in {<<>>, <<"progress", "exists">>}
           /\ ~task[k].hasResult
           /\ loop[k] = IdleLoop
           /\ disk[files[k]] = Missing
           /\ ~InResults(k)
           /\ task[k].pc # "rejected"
    /\ engine.fail = "none" => lintPc # "rejected"
    /\ lintPc = "done" =>
           /\ \A k \in Existing :
                  /\ task[k].hasResult
                  /\ \E j \in 1..Len(results) : results[j] = task[k].result
           /\ Len(results) = Cardinality(Existing)

\* C15 witness: lint has returned for 25 files of which the 7th, 14th and 21st do
\* not exist; the other 22 have results, the 11th (second batch) was fixed.
C15_Witness ==
    /\ lintPc = "done"
    /\ N = 25
    /\ (1..N) \ Existing = {7, 14, 21}
    /\ Len(results) = 22
    /\ task[7].pc = "settled"
    /\ task[11].result.fixed

----------------------------------------------------------------------------
(* Claims about errors of the engine (SpecBatch, SpecLint) *)

\* The content of file k when lint was called makes a failing engine throw.
TripsAt(k) ==
    /\ disk0[files[k]].exists
    /\ Trips(TextDocumentCreate(1, disk0[files[k]].content))

\* C16: when doValidate throws an error with the crash signature for a file,
\* validateDocument logs a warning and resolves to zero diagnostics: the file's
\* promise does not reject, nor does lint, and every other existing file of the
\* list still gets its result.
C16_CrashIsSoft ==
    engine.fail = "crashValidate" =>
        /\ lintPc # "rejected"
        /\ \A k \in 1..N :
               /\ task[k].pc # "rejected"
               /\ (TripsAt(k) /\ Settled(k)) =>
                      /\ task[k].hasResult
                      /\ task[k].result.diagnostics = <<>>
                      /\ Count(task[k].ops, "warn") = 1
                      /\ disk[files[k]] = disk0[files[k]]
        /\ lintPc = "done" =>
               \A k \in Existing :
                   /\ task[k].hasResult
                   /\ \E j \in 1..Len(results) : results[j] = task[k].result

\* C16 witness: of 25 files the 12th made doValidate crash; lint has returned,
\* the 12th has a result without diagnostics, and the 11th was fixed.
C16_Witness ==
    /\ engine.fail = "crashValidate"
    /\ lintPc = "done"
    /\ N = 25
    /\ TripsAt(12)
    /\ task[12].hasResult
    /\ Count(task[12].ops, "warn") = 1
    /\ task[11].result.fixed
    /\ Len(results) = 22

\* The message of the error names the file.
NamesFile(error, k) == error.path = files[k]

\* The errors that leave lint name the file they come from.
ErrorsCarryPath ==
    /\ \A k \in 1..N : task[k].pc = "rejected" => NamesFile(task[k].error, k)
    /\ lintPc = "rejected" =>
           \E k \in 1..N : /\ task[k].pc = "rejected"
                           /\ lintResult.error = task[k].error
                           /\ NamesFile(lintResult.error, k)

\* C17: an error without the crash signature, thrown while a file is validated
\* or while its fixes are applied, is thrown again with the file's path in its
\* message, and lint rejects with it.
C17_ErrorsCarryPath ==
    /\ ErrorsCarryPath
    /\ lintPc = "done" => \A k \in 1..N : task[k].pc # "rejected"

\* What holds instead: the errors of validateDocument name the file.
ValidationErrorsCarryPath == engine.fail = "throwValidate" => ErrorsCarryPath

\* An error thrown inside applyCodeActions has made lint reject, and its message
\* names no file.
ApplyErrorWithoutPath ==
    /\ engine.fail = "throwActions"
    /\ lintPc = "rejected"
    /\ lintResult.error = Error("other", 0)

\* C20: once lint has rejected with the error of one file, no operation that was
\* still in flight writes a file, and no further file is dispatched.
C20_FatalStopsRun ==
    [][lintPc = "rejected" => (disk' = disk /\ next' = next /\ progress' = progress)]_vars

\* What holds instead: after lint has rejected nothing more is dispatched.
NoDispatchAfterReject ==
    [][lintPc = "rejected" => (next' = next /\ progress' = progress /\ lintPc' = lintPc)]_vars

\* lint has rejected with the error of one file while the fix loop of another
\* has returned changed content that processFile is about to write.
WritePendingAfterReject ==
    /\ lintPc = "rejected"
    /\ \E k \in 1..N : /\ task[k].pc = "awaitFix"
                       /\ loop[k].pc = "returned"
                       /\ loop[k].result.changed
                       /\ ENABLED FileFixed(k)
    /\ \E k \in 1..N : task[k].pc = "rejected"

----------------------------------------------------------------------------
(* serializeDiagnostics alone (SpecSerialize): any list of diagnostics the *)
(* engine may report, with any DiagnosticSeverity or none.                 *)

\* DiagnosticSeverity of the protocol: 1 Error, 2 Warning, 3 Information, 4 Hint;
\* 0 stands for an absent severity.
EngineSeverities == 0..4

SerRanges ==
    { [start |-> [line |-> 0, character |-> 0], end |-> [line |-> 0, character |-> 5]],
      [start |-> [line |-> 1, character |-> 2], end |-> [line |-> 1, character |-> 6]] }

SerDiagnostics ==
    [range : SerRanges, severity : EngineSeverities, code : {"cssConflict"},
     source : {"", "tailwindcss"}]

SerInit ==
    /\ LoopIdle
    /\ LintIdle
    /\ EditIdle
    /\ outPc = "off"
    /\ outIn = <<>>
    /\ outOut = <<>>
    /\ serPc = "call"
    /\ serOut = <<>>
    /\ serIn \in SeqsUpTo(SerDiagnostics, MaxDiagnostics)

SerApply ==
    /\ serPc = "call"
    /\ serOut' = serializeDiagnostics(serIn)
    /\ serPc' = "done"
    /\ UNCHANGED <<serIn, outIn, outOut, outPc>>
    /\ UNCHANGED <<loopVars, lintVars, editVars>>

SerNext == SerApply

SpecSerialize == SerInit /\ [][SerNext]_vars

\* C18: every serialized diagnostic has severity 1 or 2, whatever severity the
\* engine reported (none, 1, 2, 3 or 4); an absent severity becomes 2.
C18_SeverityIsErrorOrWarning ==
    serPc = "done" =>
        /\ Len(serOut) = Len(serIn)
        /\ \A j \in 1..Len(serOut) :
               /\ serOut[j].severity \in {1, 2}
               /\ serIn[j].severity = 0 => serOut[j].severity = 2

\* What holds instead: an absent severity becomes 2, any other is kept as it is.
SeverityKeptOrDefaulted ==
    serPc = "done" =>
        /\ Len(serOut) = Len(serIn)
        /\ \A j \in 1..Len(serOut) :
               serOut[j].severity = IF serIn[j].severity = 0 THEN 2 ELSE serIn[j].severity

----------------------------------------------------------------------------
(* output.ts: countBySeverity, toJsonSeverity, toJsonDiagnostic and        *)
(* createJsonOutput.  An absent number is held as -1 (0 for a severity),   *)
(* an absent boolean as "undefined", an absent string as "".               *)

SEVERITY == [ERROR |-> 1, WARNING |-> 2]

\* The for loop of countBySeverity from diagnostic j on, with the counts so far.
RECURSIVE CountFrom(_, _, _)
CountFrom(diagnostics, j, counts) ==
    IF j > Len(diagnostics) THEN counts
    ELSE CountFrom(diagnostics, j + 1,
             [errors |-> counts.errors
                             + (IF diagnostics[j].severity = SEVERITY.ERROR THEN 1 ELSE 0),
              warnings |-> counts.warnings
                             + (IF diagnostics[j].severity = SEVERITY.WARNING THEN 1 ELSE 0)])

\* The same count taking every diagnostic that is not an error for a warning.
countBySeverityElse(diagnostics) ==
    LET counts == CountFrom(diagnostics, 1, [errors |-> 0, warnings |-> 0])
    IN  [errors |-> counts.errors, warnings |-> Len(diagnostics) - counts.errors]

countBySeverity(diagnostics) == CountFrom(diagnostics, 1, [errors |-> 0, warnings |-> 0])

toJsonSeverity(severity) ==
    IF severity = SEVERITY.ERROR THEN "error"
    ELSE IF severity = SEVERITY.WARNING THEN "warning"
    ELSE "info"

\* code: diagnostic.code ?? null, with "" for an absent code and for null.
toJsonDiagnostic(diagnostic) ==
    [line |-> diagnostic.range.start.line + 1,
     column |-> diagnostic.range.start.character + 1,
     endLine |-> diagnostic.range.end.line + 1,
     endColumn |-> diagnostic.range.end.character + 1,
     severity |-> toJsonSeverity(diagnostic.severity),
     code |-> diagnostic.code,
     message |-> diagnostic.message,
     source |-> diagnostic.source]

\* file.fixedCount || 0
FixedCountOrZero(fixedCount) == IF fixedCount \in {-1, 0} THEN 0 ELSE fixedCount

\* file.fixed || false
FixedOrFalse(fixed) == fixed = "true"

\* The callback of files.map for one file, lines 99-115: the counters after it,
\* and the mapped file appended.
MapFile(acc, file) ==
    LET severityCount == countBySeverity(file.diagnostics)
    IN  [errors |-> acc.errors + severityCount.errors,
         warnings |-> acc.warnings + severityCount.warnings,
         fixed |-> acc.fixed + FixedCountOrZero(file.fixedCount),
         filesWithIssues |-> acc.filesWithIssues
                                 + (IF Len(file.diagnostics) > 0 THEN 1 ELSE 0),
         mappedFiles |-> Append(acc.mappedFiles,
             [path |-> file.path,
              fixed |-> FixedOrFalse(file.fixed),
              fixedCount |-> FixedCountOrZero(file.fixedCount),
              diagnostics |-> [j \in 1..Len(file.diagnostics) |->
                                  toJsonDiagnostic(file.diagnostics[j])]])]

\* files.map from file i on.
RECURSIVE MapFiles(_, _, _)
MapFiles(fileResults, i, acc) ==
    IF i > Len(fileResults) THEN acc
    ELSE MapFiles(fileResults, i + 1, MapFile(acc, fileResults[i]))

createJsonOutput(arg) ==
    LET acc == MapFiles(arg.files, 1,
                   [errors |-> 0, warnings |-> 0, fixed |-> 0, filesWithIssues |-> 0,
                    mappedFiles |-> <<>>])
    IN  [ok |-> acc.errors = 0,
         summary |-> [errors |-> acc.errors,
                      warnings |-> acc.warnings,
                      fixed |-> acc.fixed,
                      filesWithIssues |-> acc.filesWithIssues,
                      totalFilesProcessed |-> arg.totalFilesProcessed],
         config |-> [cwd |-> arg.cwd,
                     configPath |-> arg.configPath,      \* "" stands for null, too
                     autoDiscover |-> arg.autoDiscover,
                     fix |-> arg.fix,
                     patterns |-> arg.patterns],
         files |-> acc.mappedFiles]

----------------------------------------------------------------------------
(* createJsonOutput alone (SpecOutput) *)

\* The severities of the diagnostics of one file result.
OutSeverityLists == {<<>>, <<1>>, <<2>>, <<2, 1>>, <<3, 0>>, <<4, 1, 1>>}

OutDiagnostic(severity) ==
    [range |-> [start |-> [line |-> 0, character |-> 0],
                end |-> [line |-> 0, character |-> 5]],
     severity |-> severity, message |-> "Invalid class", code |-> "invalidClass",
     source |-> "tailwindcss"]

OutFile(severities, fixedCount) ==
    [path |-> "src/example.html",
     fixed |-> IF fixedCount > 0 THEN "true" ELSE "undefined",
     fixedCount |-> fixedCount,
     diagnostics |-> [j \in 1..Len(severities) |-> OutDiagnostic(severities[j])]]

OutFiles == {OutFile(sv, fc) : sv \in OutSeverityLists, fc \in {-1, 0, 2}}

OutInit ==
    /\ LoopIdle
    /\ LintIdle
    /\ EditIdle
    /\ serPc = "off"
    /\ serIn = <<>>
    /\ serOut = <<>>
    /\ outPc = "call"
    /\ outOut = <<>>
    /\ \E fileResults \in SeqsUpTo(OutFiles, MaxOutFiles), more \in {0, 3}, fixFlag \in BOOLEAN :
           outIn = [files |-> fileResults,
                    totalFilesProcessed |-> Len(fileResults) + more,
                    cwd |-> "/tmp/project", configPath |-> "src/app.css",
                    autoDiscover |-> TRUE, fix |-> fixFlag, patterns |-> <<>>]

OutApply ==
    /\ outPc = "call"
    /\ outOut' = createJsonOutput(outIn)
    /\ outPc' = "done"
    /\ UNCHANGED <<outIn, serIn, serOut, serPc>>
    /\ UNCHANGED <<loopVars, lintVars, editVars>>

OutNext == OutApply

SpecOutput == OutInit /\ [][OutNext]_vars

\* The diagnostics of the given files that have severity sv, as (file, index) pairs.
WithSeverity(fileResults, sv) ==
    {p \in (1..Len(fileResults)) \X (1..3) :
        /\ p[2] <= Len(fileResults[p[1]].diagnostics)
        /\ fileResults[p[1]].diagnostics[p[2]].severity = sv}

\* One element per fix counted in the given files.
FixesOf(fileResults) ==
    {p \in (1..Len(fileResults)) \X (1..2) : p[2] <= fileResults[p[1]].fixedCount}

\* C19: summary.errors and summary.warnings are the numbers of diagnostics of
\* severity 1 and 2 over all files, summary.fixed is the sum of the files'
\* fixedCount, summary.filesWithIssues the number of files with a diagnostic,
\* totalFilesProcessed is passed through, and ok is true exactly when
\* summary.errors is 0.
C19_JsonSummary ==
    outPc = "done" =>
        /\ outOut.summary.errors = Cardinality(WithSeverity(outIn.files, 1))
        /\ outOut.summary.warnings = Cardinality(WithSeverity(outIn.files, 2))
        /\ outOut.summary.fixed = Cardinality(FixesOf(outIn.files))
        /\ outOut.summary.filesWithIssues =
               Cardinality({i \in 1..Len(outIn.files) : outIn.files[i].diagnostics # <<>>})
        /\ outOut.summary.totalFilesProcessed = outIn.totalFilesProcessed
        /\ outOut.ok <=> (outOut.summary.errors = 0)
        /\ Len(outOut.files) = Len(outIn.files)

\* C19 witness: two files, three errors and one warning between them, one
\* diagnostic that is neither, two fixes, and more files processed than listed.
C19_Witness ==
    /\ outPc = "done"
    /\ Len(outIn.files) = 2
    /\ outOut.summary = [errors |-> 3, warnings |-> 1, fixed |-> 2, filesWithIssues |-> 2,
                         totalFilesProcessed |-> 5]
    /\ ~outOut.ok
    /\ \E i \in 1..2 : \E j \in 1..Len(outIn.files[i].diagnostics) :
           outIn.files[i].diagnostics[j].severity = 4

----------------------------------------------------------------------------
(* C21: which of the engine's actions the loop applies *)

\* A kind that is "quickfix" itself or a dotted sub-kind of it.
QuickfixKind(kind) ==
    \/ Len(kind) = 1 /\ kind[1] = "quickfix"
    \/ Len(kind) >= 2 /\ kind[1] = "quickfix" /\ kind[2] = "."

\* What the engine answers to the doCodeActions call the loop is waiting for.
Offered(state, l) ==
    doCodeActions(state, CodeActionParams(l.currentDocument, l.currentDiagnostics),
                  l.currentDocument)

\* The actions of quickfix kind, in the order the engine returned them.
Retained(actions) ==
    LET Q == {k \in 1..Len(actions) : QuickfixKind(actions[k].kind)}
        at(j) == CHOOSE k \in Q : Cardinality({q \in Q : q < k}) = j - 1
    IN  [j \in 1..Cardinality(Q) |-> actions[at(j)]]

\* C21: every step that consumes the engine's code actions keeps exactly the
\* actions of kind "quickfix" or "quickfix.*", in the engine's order, and applies
\* the first of them and no other: with none retained the loop stops with the
\* content as it was, whatever actions of other kinds (undefined, "refactor",
\* "quickfixes") the engine offered.
C21_FirstQuickfixApplied ==
    [][\A i \in DOMAIN loop :
          ( /\ loop[i].pc = "awaitActions"
            /\ loop'[i] # loop[i]
            /\ doCodeActionsThrows(engine, loop[i].currentDocument) = "none" )
          => LET l == loop[i]
                 kept == Retained(Offered(engine, l))
             IN  /\ getQuickfixes(engine, l.currentDocument, l.currentDiagnostics) = kept
                 /\ IF kept = <<>>
                    THEN /\ loop'[i].exit = "noQuickfix"
                         /\ loop'[i].result.content = l.currentContent
                         /\ loop'[i].totalFixed = l.totalFixed
                    ELSE IF ~kept[1].hasChanges
                    THEN loop'[i].exit = "noEdits"
                    ELSE /\ loop'[i].totalFixed = l.totalFixed + 1
                         /\ loop'[i].currentContent =
                                ApplySortedEdits(SortEdits(kept[1].edits),
                                                 l.currentDocument, l.currentContent)
      ]_vars

\* The engine offered a refactoring, then "quickfix.rewrite" for the last
\* diagnostic, then "quickfix" for the first: the second action was applied.
C21_Witness ==
    /\ engine.act = "mixed"
    /\ loop[1].content = <<"b", "b">>
    /\ loop[1].totalFixed = 1
    /\ loop[1].currentContent = <<"b", "c", "c">>

\* Actions of other kinds only were offered, and the loop stopped on them.
C21_WitnessOtherKinds ==
    /\ engine.act = "refactor"
    /\ loop[1].exit = "noQuickfix"
    /\ loop[1].currentDiagnostics # <<>>

----------------------------------------------------------------------------
(* C22: a quickfix that edits nothing *)

\* The first retained quickfix has no edits for the document: no changes entry
\* for its URI, or an entry that is an empty list.
FirstQuickfixEditsNothing(state, l) ==
    LET kept == Retained(Offered(state, l))
    IN  /\ kept # <<>>
        /\ \/ ~kept[1].hasChanges
           \/ kept[1].edits = <<>>

\* C22: when the first quickfix has no edits for the document, the step that
\* consumes it ends the loop there: fixedCount is not incremented, no new
\* Document version is created and nothing is raised.
C22_EmptyQuickfixIsInert ==
    [][\A i \in DOMAIN loop :
          ( /\ loop[i].pc = "awaitActions"
            /\ loop'[i] # loop[i]
            /\ doCodeActionsThrows(engine, loop[i].currentDocument) = "none"
            /\ FirstQuickfixEditsNothing(engine, loop[i]) )
          => /\ loop'[i].pc = "returned"
             /\ loop'[i].exit = "noEdits"
             /\ loop'[i].totalFixed = loop[i].totalFixed
             /\ loop'[i].currentDocument = loop[i].currentDocument
             /\ loop'[i].documents = loop[i].documents
      ]_vars

\* The half that holds: a quickfix without a changes entry for the document
\* ends the loop, uncounted.
MissingChangesIsInert ==
    [][\A i \in DOMAIN loop :
          ( /\ loop[i].pc = "awaitActions"
            /\ loop'[i] # loop[i]
            /\ doCodeActionsThrows(engine, loop[i].currentDocument) = "none"
            /\ Retained(Offered(engine, loop[i])) # <<>>
            /\ ~Retained(Offered(engine, loop[i]))[1].hasChanges )
          => /\ loop'[i].exit = "noEdits"
             /\ loop'[i].totalFixed = loop[i].totalFixed
             /\ loop'[i].currentDocument = loop[i].currentDocument
      ]_vars

\* An empty edit list is counted as a fix in every iteration, up to the bound:
\* the call returns MAX_FIX_ITERATIONS fixes on an unchanged content.
EmptyEditsCountedNever ==
    ~( /\ engine.act = "emptyEdits"
       /\ loop[1].pc = "returned"
       /\ loop[1].exit = "bound"
       /\ loop[1].result.fixedCount = MAX_FIX_ITERATIONS
       /\ ~loop[1].result.changed
       /\ loop[1].currentDocument.version = MAX_FIX_ITERATIONS + 1
       /\ loop[1].warned )

----------------------------------------------------------------------------
(* C23: diagnostics for which the engine has no quickfix *)

\* C23: when the engine's answer holds no quickfix for the diagnostics of an
\* iteration, the loop returns in that step, without an error, the content the
\* fixes applied so far have produced (the content it was given if there were
\* none), with their count; the file's result then carries the diagnostics the
\* loop stopped on, and the file is in the report.
C23_NoQuickfixStops ==
    /\ [][\A i \in DOMAIN loop :
             ( /\ loop[i].pc = "awaitActions"
               /\ loop'[i] # loop[i]
               /\ doCodeActionsThrows(engine, loop[i].currentDocument) = "none"
               /\ loop[i].currentDiagnostics # <<>>
               /\ Retained(Offered(engine, loop[i])) = <<>> )
             => /\ loop'[i].pc = "returned"
                /\ loop'[i].error = NoError
                /\ loop'[i].result.content = loop[i].currentContent
                /\ loop'[i].result.content = loop[i].currentDocument.text
                /\ loop'[i].result.fixedCount = loop[i].totalFixed
                /\ loop'[i].result.changed = (loop[i].currentContent # loop[i].content)
                /\ loop[i].totalFixed = 0 => loop'[i].result.content = loop[i].content
                /\ loop'[i].validateCalls = loop[i].validateCalls
                /\ loop'[i].codeActionCalls = loop[i].codeActionCalls
         ]_vars
    /\ [](\A k \in 1..N :
             (Settled(k) /\ loop[k].exit = "noQuickfix")
             => /\ task[k].hasResult
                /\ task[k].error = NoError
                /\ task[k].result.diagnostics # <<>>
                /\ task[k].result.diagnostics
                       = serializeDiagnostics(loop[k].currentDiagnostics)
                /\ task[k].result.fixedCount = loop[k].totalFixed
                /\ disk[files[k]].content = loop[k].currentContent
                /\ lintPc = "done" => InReport(k))

\* A file with two diagnostics of which the engine can fix the first only: one
\* fix was applied and written, and the other diagnostic is reported.
C23_Witness ==
    /\ lintPc = "done"
    /\ \E k \in 1..N :
          /\ Settled(k)
          /\ loop[k].exit = "noQuickfix"
          /\ loop[k].totalFixed = 1
          /\ disk0[files[k]].content = <<"b", "b">>
          /\ disk[files[k]].content = <<"c", "c", "b">>
          /\ Len(task[k].result.diagnostics) = 1
          /\ InReport(k)

\* No quickfix at all: the file is left as it was and its diagnostics reported.
C23_WitnessNoFix ==
    /\ lintPc = "done"
    /\ \E k \in 1..N :
          /\ Settled(k)
          /\ loop[k].exit = "noQuickfix"
          /\ loop[k].totalFixed = 0
          /\ disk[files[k]] = disk0[files[k]]
          /\ InReport(k)

----------------------------------------------------------------------------
(* C24: the order and the arguments of the engine calls of one loop *)

\* The diagnostics with an absent source set to "tailwindcss".
SourceDefaulted(diagnostics) ==
    [k \in 1..Len(diagnostics) |->
        [diagnostics[k] EXCEPT !.source = IF @ = "" THEN "tailwindcss" ELSE @]]

\* The document after d, the document of the outstanding doCodeActions call: the
\* first quickfix of the engine's answer applied to d, one version on.
DocumentAfter(state, l) ==
    LET d == l.sent.document
        kept == Retained(doCodeActions(state, l.sent.params, d))
    IN  TextDocumentCreate(d.version + 1,
                           ApplySortedEdits(SortEdits(kept[1].edits), d, d.text))

\* C24: the engine calls of one loop are validate(d1), codeActions(d1),
\* validate(d2), codeActions(d2), ... one at a time: a doCodeActions call is made
\* only on the answer of the doValidate call of the same iteration, for the same
\* document and with exactly the diagnostics of that answer (source defaulted to
\* "tailwindcss"), never with the caller's; a doValidate call is made only at
\* the start, for version 1 of the content, or on the answer of the previous
\* iteration's doCodeActions call, for the document that applying its first
\* quickfix gives.
C24_SequentialCalls ==
    [][\A i \in DOMAIN loop :
          LET l == loop[i]
              m == loop'[i]
          IN  /\ m.validateCalls = l.validateCalls + 1
                 => /\ m.codeActionCalls = l.codeActionCalls
                    /\ m.pc = "awaitValidate"
                    /\ m.sent.op = "validate"
                    /\ m.sent.document = m.currentDocument
                    /\ \/ /\ l.pc = "idle"
                          /\ m.iteration = 0
                          /\ m.sent.document = TextDocumentCreate(1, m.content)
                       \/ /\ l.pc = "awaitActions"
                          /\ l.sent.op = "codeActions"
                          /\ m.iteration = l.iteration + 1
                          /\ m.sent.document = DocumentAfter(engine, l)
              /\ m.codeActionCalls = l.codeActionCalls + 1
                 => /\ m.validateCalls = l.validateCalls
                    /\ l.pc = "awaitValidate"
                    /\ l.sent.op = "validate"
                    /\ m.pc = "awaitActions"
                    /\ m.iteration = l.iteration
                    /\ m.sent.op = "codeActions"
                    /\ m.sent.document = l.sent.document
                    /\ m.sent.params.context.diagnostics
                           = SourceDefaulted(doValidate(engine, l.sent.document))
              /\ (m.sent # l.sent /\ m.pc # "idle")
                 => \/ m.validateCalls = l.validateCalls + 1
                    \/ m.codeActionCalls = l.codeActionCalls + 1
              /\ m.pc = "awaitValidate"
                 => m.validateCalls = m.iteration + 1 /\ m.codeActionCalls = m.iteration
              /\ m.pc = "awaitActions"
                 => m.validateCalls = m.iteration + 1 /\ m.codeActionCalls = m.iteration + 1
      ]_vars

\* The second iteration's doCodeActions call is out, for version 2 of the
\* document, with diagnostics that are not the ones the caller gave.
C24_Witness ==
    /\ loop[1].pc = "awaitActions"
    /\ loop[1].iteration = 1
    /\ loop[1].sent.document.version = 2
    /\ loop[1].diagnostics # <<>>
    /\ loop[1].sent.params.context.diagnostics # SourceDefaulted(loop[1].diagnostics)
    /\ loop[1].sent.params.context.diagnostics # <<>>

\* A diagnostic the engine reported without a source was passed on with
\* "tailwindcss" as its source.
C24_WitnessSource ==
    /\ loop[1].pc = "awaitActions"
    /\ loop[1].currentDiagnostics[1].source = ""
    /\ loop[1].sent.params.context.diagnostics[1].source = "tailwindcss"

----------------------------------------------------------------------------
(* C25: the version of the current document *)

\* C25: once the loop has created its first document, the version of the
\* current document is 1 + the number of fixes applied so far; the first
\* document has version 1, and a step either leaves the version as it is or adds
\* exactly 1 to it, the latter exactly when it counts one more fix.
C25_VersionCountsFixes ==
    /\ [](\A i \in DOMAIN loop :
             loop[i].documents > 0
             => /\ loop[i].currentDocument.version = 1 + loop[i].totalFixed
                /\ loop[i].currentDocument.version = loop[i].documents)
    /\ [][\A i \in DOMAIN loop :
             LET l == loop[i]
                 m == loop'[i]
             IN  /\ (l.documents = 0 /\ m.documents > 0)
                    => m.currentDocument.version = 1 /\ m.totalFixed = 0
                 /\ (l.documents > 0 /\ m.documents > 0)
                    => /\ m.currentDocument.version \in
                              {l.currentDocument.version, l.currentDocument.version + 1}
                       /\ m.currentDocument.version = l.currentDocument.version + 1
                              <=> m.totalFixed = l.totalFixed + 1
                       /\ m.currentDocument.version = l.currentDocument.version
                              <=> m.totalFixed = l.totalFixed
         ]_vars

\* Two fixes were applied and the third version of the document is being validated.
C25_Witness ==
    /\ loop[1].pc = "awaitValidate"
    /\ loop[1].totalFixed = 2
    /\ loop[1].currentDocument.version = 3
    /\ loop[1].currentDocument.text # loop[1].content

----------------------------------------------------------------------------
(* C26: termination and the number of engine calls.  Every engine call is  *)
(* awaited and the engine answers it or throws, so the loop never waits    *)
(* for one answer for ever.  DirectValidated is enabled exactly while the  *)
(* loop waits at `await doValidate` and leaves that position, and likewise *)
(* DirectActions at `await doCodeActions`: the two conditions below are    *)
(* WF_vars(DirectValidated) and WF_vars(DirectActions) written out.        *)

AnswersValidate == []<>(loop[1].pc # "awaitValidate")
AnswersCodeActions == []<>(loop[1].pc # "awaitActions")

\* One call of applyCodeActions, followed to its end.
OnceNext ==
    \/ DirectCall
    \/ DirectValidated
    \/ DirectActions

SpecLoopFair == LoopInit /\ [][OnceNext]_vars /\ AnswersValidate /\ AnswersCodeActions

Waiting(l) == l.pc \in {"awaitValidate", "awaitActions"}
Ended(l) == l.pc \in {"returned", "threw"}

\* C26: a call of the loop ends, whatever the engine answers; the fixes it counts
\* never exceed the iterations completed, which never exceed the iterations
\* begun, which never exceed MAX_FIX_ITERATIONS; it makes at most
\* MAX_FIX_ITERATIONS doCodeActions calls and at most MAX_FIX_ITERATIONS + 1
\* doValidate calls, and the fixedCount it reports is at most the count of its
\* iterations.
C26_TerminatesWithinBound ==
    /\ Waiting(loop[1]) ~> Ended(loop[1])
    /\ [](LET l == loop[1]
          IN  /\ l.totalFixed <= l.iteration
              /\ l.iteration <= l.validateCalls
              /\ l.iteration <= MAX_FIX_ITERATIONS
              /\ l.codeActionCalls <= l.validateCalls
              /\ l.codeActionCalls <= MAX_FIX_ITERATIONS
              /\ l.validateCalls <= MAX_FIX_ITERATIONS + 1
              /\ Ended(l) => /\ l.result.fixedCount <= l.totalFixed
                             /\ l.result.fixedCount <= l.validateCalls)

\* A call that ran all its iterations: MAX_FIX_ITERATIONS fixes, as many
\* doCodeActions calls and as many doValidate calls.
C26_Witness ==
    /\ loop[1].pc = "returned"
    /\ loop[1].exit = "bound"
    /\ loop[1].result.fixedCount = MAX_FIX_ITERATIONS
    /\ loop[1].codeActionCalls = MAX_FIX_ITERATIONS
    /\ loop[1].validateCalls = MAX_FIX_ITERATIONS

----------------------------------------------------------------------------
(* C27: the working content, the current document and the returned content *)

\* currentContent is the text of currentDocument wherever the loop waits.
ContentIsDocumentText(l) == Waiting(l) => l.currentContent = l.currentDocument.text

\* changed says whether the returned content differs from the content given.
ChangedIffDiffers(l) == l.pc = "returned" => l.result.changed = (l.result.content # l.content)

\* The returned content is the text of the last document created (the content
\* given, if the call returned before it created one).
ReturnsLastDocument(l) ==
    l.pc = "returned"
    => l.result.content = (IF l.documents = 0 THEN l.content ELSE l.currentDocument.text)

\* C27: at every iteration boundary the working content is the text of the
\* current document; the content a call returns is the text of the last
\* document it created; changed is true exactly when the returned content
\* differs from the content given.
C27_ContentMatchesDocument ==
    \A i \in DOMAIN loop :
        /\ ContentIsDocumentText(loop[i])
        /\ ReturnsLastDocument(loop[i])
        /\ ChangedIffDiffers(loop[i])

\* C27 as the code has it: the same, except that a call ending in the catch
\* block on an engine crash returns the content it was given, whatever documents
\* it has created.
C27_ContentMatchesDocumentUnlessCrashed ==
    \A i \in DOMAIN loop :
        /\ ContentIsDocumentText(loop[i])
        /\ loop[i].exit # "crashed" => ReturnsLastDocument(loop[i])
        /\ loop[i].exit = "crashed"
           => loop[i].pc = "returned" /\ loop[i].result.content = loop[i].content
        /\ ChangedIffDiffers(loop[i])

\* A call returned, after two fixes, the text of the third document it created.
C27_Witness ==
    /\ loop[1].pc = "returned"
    /\ loop[1].exit = "converged"
    /\ loop[1].currentDocument.version = 3
    /\ loop[1].result.content = loop[1].currentDocument.text
    /\ loop[1].result.changed

\* A call returned the content it was given although the last document it
\* created has another text: the engine crashed after a fix.
C27_WitnessCrashed ==
    /\ loop[1].pc = "returned"
    /\ loop[1].exit = "crashed"
    /\ loop[1].currentDocument.version = 2
    /\ loop[1].result.content # loop[1].currentDocument.text
    /\ ~loop[1].result.changed

----------------------------------------------------------------------------
(* C28: the diagnostics of a file's result *)

\* C28: with fix requested, the result of a file whose content the loop changed
\* carries the diagnostics of validating the content that was written, which is
\* the content on disk; the result of a file whose content the loop did not
\* change, or for which the loop was not called, carries the diagnostics of the
\* first validation of the content read.
C28_ResultDiagnostics ==
    \A k \in 1..N :
        (fix /\ Settled(k) /\ task[k].hasResult)
        => IF loop[k].pc = "returned" /\ loop[k].result.changed
           THEN /\ Count(task[k].ops, "write") = 1
                /\ disk[files[k]].content = loop[k].result.content
                /\ task[k].result.diagnostics
                       = validateDocument(engine, disk[files[k]].content)
           ELSE /\ Count(task[k].ops, "write") = 0
                /\ disk[files[k]] = disk0[files[k]]
                /\ task[k].result.diagnostics
                       = validateDocument(engine, disk0[files[k]].content)

\* A file was fixed in part: its result carries the one diagnostic of the
\* written content, not the two of the content read.
C28_Witness ==
    /\ fix
    /\ \E k \in 1..N :
          /\ Settled(k)
          /\ loop[k].result.changed
          /\ Len(validateDocument(engine, disk0[files[k]].content)) = 2
          /\ Len(task[k].result.diagnostics) = 1
          /\ task[k].result.diagnostics = validateDocument(engine, disk[files[k]].content)

\* The loop ran and changed nothing: the result carries the first diagnostics.
C28_WitnessUnchanged ==
    /\ fix
    /\ \E k \in 1..N :
          /\ Settled(k)
          /\ loop[k].pc = "returned"
          /\ loop[k].exit # "short"
          /\ ~loop[k].result.changed
          /\ task[k].result.diagnostics # <<>>

----------------------------------------------------------------------------
(* C29: an engine crash inside the fix loop *)

\* The engine throws errors with the crash signature only.
CrashesOnly == engine.fail \in {"crashValidate", "crashActions"}

\* C29: when the engine throws with the crash signature inside the loop, after
\* any number of fixes, applyCodeActions returns the content it was given with
\* changed = false and fixedCount = 0 and throws nothing: the file is not
\* written, its result says fixed = false and fixedCount = 0, and neither the
\* file's promise nor lint rejects on a crash.
C29_CrashDiscardsDraft ==
    /\ \A k \in 1..N :
          loop[k].exit = "crashed"
          => /\ loop[k].pc = "returned"
             /\ loop[k].error = NoError
             /\ loop[k].result.content = disk0[files[k]].content
             /\ ~loop[k].result.changed
             /\ loop[k].result.fixedCount = 0
             /\ disk[files[k]] = disk0[files[k]]
             /\ Count(task[k].ops, "write") = 0
             /\ task[k].pc # "rejected"
             /\ Settled(k) => /\ task[k].hasResult
                              /\ ~task[k].result.fixed
                              /\ task[k].result.fixedCount = 0
    /\ CrashesOnly
       => /\ lintPc # "rejected"
          /\ \A k \in 1..N : loop[k].pc # "threw" /\ task[k].pc # "rejected"

\* The engine crashed on the document a first fix produced: the file went
\* through unwritten and lint returned.
C29_Witness ==
    /\ lintPc = "done"
    /\ \E k \in 1..N :
          /\ Settled(k)
          /\ loop[k].exit = "crashed"
          /\ loop[k].totalFixed >= 1
          /\ loop[k].currentContent # loop[k].content
          /\ disk[files[k]] = disk0[files[k]]

----------------------------------------------------------------------------
(* C30: fixed and fixedCount in a file's result *)

\* The file was written.
Wrote(k) == Count(task[k].ops, "write") >= 1

\* The loop ran for the file and returned a content other than the content read.
LoopChangedContent(k) ==
    /\ loop[k].pc = "returned"
    /\ loop[k].result.content # disk0[files[k]].content

\* C30: in every file's result fixed = true exactly when the file was written,
\* which is exactly when the loop returned a content that differs from the
\* content read, and then the file on disk differs from what it was; fixed =
\* true comes with fixedCount >= 1 and fixed = false with fixedCount = 0, also
\* when the loop counted fixes that left the content as it was.
C30_FixedIffWritten ==
    \A k \in 1..N :
        (Settled(k) /\ task[k].hasResult)
        => LET r == task[k].result
           IN  /\ r.fixed <=> Wrote(k)
               /\ Wrote(k) <=> LoopChangedContent(k)
               /\ r.fixed <=> disk[files[k]] # disk0[files[k]]
               /\ r.fixed => r.fixedCount >= 1 /\ r.fixedCount = loop[k].totalFixed
               /\ ~r.fixed => r.fixedCount = 0

\* A file was fixed and written, and its result says so.
C30_Witness ==
    \E k \in 1..N :
        /\ Settled(k)
        /\ task[k].result.fixed
        /\ task[k].result.fixedCount >= 1
        /\ Wrote(k)
        /\ disk[files[k]] # disk0[files[k]]

\* The loop counted fixes that left the content as it was: nothing was written
\* and the result says fixed = false, fixedCount = 0.
C30_WitnessCancelled ==
    \E k \in 1..N :
        /\ Settled(k)
        /\ task[k].hasResult
        /\ loop[k].pc = "returned"
        /\ loop[k].totalFixed >= 1
        /\ loop[k].exit # "crashed"
        /\ ~task[k].result.fixed
        /\ task[k].result.fixedCount = 0
        /\ ~Wrote(k)

============================================================================
